---------------------------- MODULE Spec2Model ----------------------------
(***************************************************************************)
(* Model of the enrichment orchestration core of ai_product_enricher:      *)
(*   services/cache.py     CacheService over a cachetools.TTLCache         *)
(*   services/enricher.py  ProductEnricherService (routing, enrich_product,*)
(*                         enrich_batch)                                   *)
(*                                                                         *)
(* Strings the code transforms (product names, country codes) are          *)
(* sequences of one-character strings, so that lower(), upper() and        *)
(* strip() are computed and not assumed.  The MD5 digest of the JSON dump  *)
(* of key_data is represented by key_data itself (digest collisions are    *)
(* not modelled).  asyncio is modelled at the granularity of its           *)
(* suspension points: the code between two awaits is one atomic step.      *)
(***************************************************************************)
EXTENDS Integers, Sequences, FiniteSets, TLC

VARIABLES
    cache,      \* CacheService._cache: the TTLCache entries, oldest first
    hits,       \* CacheService._hits
    misses,     \* CacheService._misses
    now,        \* the TTLCache timer (time.monotonic), in ticks
    lastOp,     \* the last CacheService call made directly, with what it returned
    cloudruConfigured,  \* CloudruClient.is_configured
    invoked,    \* per provider, the calls of its client's enrich_product so far
    call,       \* the ProductEnricherService.enrich_product call in progress, or the last one
    clientCall, \* a provider client's enrich_product call in progress, or the last one
    response,   \* POST /enrich: the HTTP answer to the last request
    health,     \* ProductEnricherService.health_check in progress, or the last one
    parsed,     \* a provider client's handling of a completion: _parse_response
    validated,  \* the last ProductInput construction: what was given, and the outcome
    config,     \* a ConfigurationManager: its profiles, active profile name and files
    request,    \* enrich_batch: the BatchEnrichmentRequest and use_cache
    task,       \* enrich_batch: process_product(i, product), by index i
    semaphore,  \* enrich_batch: the value of asyncio.Semaphore(max_concurrent)
    order,      \* enrich_batch: the indices in the order their items were produced
    results,    \* enrich_batch: results
    summary,    \* enrich_batch: the BatchSummary, once computed
    bpc         \* enrich_batch: "idle", "running", "returned" or "raised"

(***************************************************************************)
(* Bounds of the model.                                                    *)
(***************************************************************************)
MaxOps == 3         \* direct CacheService calls in one behaviour
MaxCalls == 2       \* enrich_product calls in one behaviour
MaxProducts == 3    \* products in one batch request
MaxConcurrent == 2  \* largest batch_options.max_concurrent
MaxTime == 2        \* last tick of the timer
CacheTtl == 2       \* CacheService(ttl_seconds=...)
CacheMaxSize == 2   \* CacheService(max_size=...)
MaxRan == 2         \* largest value of a task's count of instants in flight

\* Python's None, and Optional values: None is the empty tuple, a value v that
\* is present is Some(v) (a country code is a tuple of characters, so None and
\* the empty string, both falsy, are the same value).
None == <<>>

Some(v) == <<v>>

Value(opt) == opt[1]

(***************************************************************************)
(* str.lower(), str.upper() and str.strip() on sequences of characters.    *)
(***************************************************************************)
CharLower(c) ==
    CASE c = "A" -> "a"
      [] c = "B" -> "b"
      [] c = "R" -> "r"
      [] c = "U" -> "u"
      [] c = "S" -> "s"
      [] c = "C" -> "c"
      [] c = "N" -> "n"
      [] OTHER -> c

CharUpper(c) ==
    CASE c = "a" -> "A"
      [] c = "b" -> "B"
      [] c = "r" -> "R"
      [] c = "u" -> "U"
      [] c = "s" -> "S"
      [] c = "c" -> "C"
      [] c = "n" -> "N"
      [] OTHER -> c

Lower(s) == [i \in 1..Len(s) |-> CharLower(s[i])]

Upper(s) == [i \in 1..Len(s) |-> CharUpper(s[i])]

RECURSIVE LStrip(_)
LStrip(s) == IF s # <<>> /\ Head(s) = " " THEN LStrip(Tail(s)) ELSE s

RECURSIVE RStrip(_)
RStrip(s) ==
    IF s # <<>> /\ s[Len(s)] = " " THEN RStrip(SubSeq(s, 1, Len(s) - 1)) ELSE s

Strip(s) == RStrip(LStrip(s))

(***************************************************************************)
(* sorted(fields): Python orders str by code point; FieldRank is that      *)
(* order on the field names the model uses.                                *)
(***************************************************************************)
FieldRank(f) ==
    CASE f = "category" -> 1
      [] f = "description" -> 2
      [] f = "manufacturer" -> 3
      [] OTHER -> 4

RECURSIVE Insert(_, _)
Insert(f, s) ==
    IF s = <<>> THEN <<f>>
    ELSE IF FieldRank(f) <= FieldRank(Head(s)) THEN <<f>> \o s
    ELSE <<Head(s)>> \o Insert(f, Tail(s))

RECURSIVE Sorted(_)
Sorted(fields) ==
    IF fields = <<>> THEN <<>> ELSE Insert(Head(fields), Sorted(Tail(fields)))

FieldSet(fields) == {fields[i] : i \in 1..Len(fields)}

(***************************************************************************)
(* CacheService._generate_key                                              *)
(***************************************************************************)
\* a key that leaves the language out of key_data
GenerateKeyNoLanguage(product_name, language, fields, web_search) ==
    [name |-> Strip(Lower(product_name)),
     language |-> "",
     fields |-> Sorted(fields),
     web_search |-> web_search]

\* a key made of the name and the fields as they were passed
GenerateKeyAsPassed(product_name, language, fields, web_search) ==
    [name |-> product_name,
     language |-> language,
     fields |-> fields,
     web_search |-> web_search]

GenerateKey(product_name, language, fields, web_search) ==
    [name |-> Strip(Lower(product_name)),
     language |-> language,
     fields |-> Sorted(fields),
     web_search |-> web_search]

(***************************************************************************)
(* EnrichmentResult.model_dump() and EnrichmentResult.model_validate():    *)
(* the dump is a plain dict of the fields, the validation rebuilds the     *)
(* nested models from it.  Of the containers an EnrichmentResult holds, the  *)
(* model keeps one: a list or dict that is a value of                      *)
(* enriched.specifications (dict[str, Any]), as a sequence.                *)
(***************************************************************************)
SpecificationValue == <<"v">>

\* what a caller can change in place through an EnrichmentResult: an
\* attribute of one of its models (metadata), and the container held in
\* enriched.specifications
Parts == {"metadata", "specifications"}

\* a dump that keeps the containers found under Any as they are
DumpSharesContainers(part) == part = "specifications"

\* model_dump(): the parts of the dump that are the very objects of the
\* result.  None: models become new dicts, and lists and dicts are rebuilt,
\* those under Any too.
DumpShares(part) == FALSE

\* model_validate(data): the parts of the result that are the very objects of
\* data.  The nested models are built anew; a value of a dict[str, Any] is
\* taken as it is, so a container there is shared with data.
ValidateShares(part) == part = "specifications"

\* a dict of the cache after the in-place change of one of its parts
Touch(data, part) ==
    IF part = "metadata"
    THEN [data EXCEPT !.cached = TRUE]
    ELSE [data EXCEPT !.specifications = Append(@, "x")]

\* the entries after a part of an object that was dumped into, or validated
\* from, the entry under key is changed in place: the entry changes when that
\* part is shared with it
WriteThrough(c, key, part, shared) ==
    IF shared
    THEN [i \in 1..Len(c) |->
            IF c[i].key = key THEN [c[i] EXCEPT !.value = Touch(@, part)] ELSE c[i]]
    ELSE c

ModelDump(result) ==
    [product_name |-> result.product.name,
     product_country_origin |-> result.product.country_origin,
     enriched |-> result.enriched,
     specifications |-> result.specifications,
     llm_provider |-> result.metadata.llm_provider,
     tokens_used |-> result.metadata.tokens_used,
     web_search_used |-> result.metadata.web_search_used,
     cached |-> result.metadata.cached]

ModelValidate(data) ==
    [product |-> [name |-> data.product_name,
                  country_origin |-> data.product_country_origin],
     enriched |-> data.enriched,
     specifications |-> data.specifications,
     metadata |-> [llm_provider |-> data.llm_provider,
                   tokens_used |-> data.tokens_used,
                   web_search_used |-> data.web_search_used,
                   cached |-> data.cached]]

(***************************************************************************)
(* cachetools.TTLCache as CacheService uses it.  An entry is live while    *)
(* timer() < expires; entries are kept in the order they were last set.    *)
(***************************************************************************)
Expire(c, t) == SelectSeq(c, LAMBDA e : t < e.expires)

\* an entry that is still served at the instant it expires
LiveAtExpiry(c, t) == {c[i] : i \in {j \in 1..Len(c) : t <= c[j].expires}}

Live(c, t) == {c[i] : i \in {j \in 1..Len(c) : t < c[j].expires}}

\* self._cache.get(key)
TTLCacheGet(c, key, t) ==
    IF \E e \in Live(c, t) : e.key = key
    THEN Some((CHOOSE e \in Live(c, t) : e.key = key).value)
    ELSE None

\* key in self._cache
TTLCacheContains(c, key, t) == \E e \in Live(c, t) : e.key = key

\* a deletion that takes every entry along
TTLCacheDeleteAll(c, key) == <<>>

\* del self._cache[key]
TTLCacheDelete(c, key) == SelectSeq(c, LAMBDA e : e.key # key)

\* len(self._cache): the entries that have not expired
TTLCacheLen(c, t) == Len(Expire(c, t))

\* self._cache.clear(): popitem until the cache is empty
TTLCacheClear(c) == <<>>

\* a cache that never evicts
EvictNothing(c, maxsize) == c

\* popitem while the cache is full: the entry set longest ago goes first
RECURSIVE Evict(_, _)
Evict(c, maxsize) == IF Len(c) >= maxsize /\ c # <<>> THEN Evict(Tail(c), maxsize) ELSE c

\* a store that keeps the entry already held under the key beside the new one
TTLCacheSetAppend(c, key, value, src, t) ==
    Expire(c, t) \o <<[key |-> key, value |-> value, expires |-> t + CacheTtl, src |-> src]>>

\* self._cache[key] = value
TTLCacheSet(c, key, value, src, t) ==
    LET live == Expire(c, t)
        entry == [key |-> key, value |-> value, expires |-> t + CacheTtl, src |-> src]
    IN  IF \E i \in 1..Len(live) : live[i].key = key
        THEN SelectSeq(live, LAMBDA e : e.key # key) \o <<entry>>
        ELSE Evict(live, CacheMaxSize) \o <<entry>>

(***************************************************************************)
(* CacheService.get and CacheService.set as functions of the cache state.  *)
(***************************************************************************)
MarkCached(result) == [result EXCEPT !.metadata.cached = TRUE]

\* the value CacheService.get returns
CacheGetResult(c, t, product_name, language, fields, web_search) ==
    LET cached_data == TTLCacheGet(c, GenerateKey(product_name, language, fields, web_search), t)
    IN  IF cached_data # None
        THEN Some(MarkCached(ModelValidate(Value(cached_data))))
        ELSE None

\* the entries after CacheService.get: on a hit, "result.metadata.cached =
\* True" is an in-place change of the validated result
CacheGetEntries(c, t, product_name, language, fields, web_search) ==
    LET key == GenerateKey(product_name, language, fields, web_search)
    IN  IF TTLCacheGet(c, key, t) # None
        THEN WriteThrough(c, key, "metadata", ValidateShares("metadata"))
        ELSE c

\* the entries after CacheService.set
CacheSetEntries(c, t, result, language, fields, web_search) ==
    TTLCacheSet(c,
                GenerateKey(result.product.name, language, fields, web_search),
                ModelDump(result),
                [name |-> result.product.name, language |-> language,
                 fields |-> fields, web_search |-> web_search, result |-> result,
                 at |-> t],
                t)

(***************************************************************************)
(* Inputs.                                                                 *)
(***************************************************************************)
NameA == <<"A">>
NameAVariant == <<" ", "a">>
NameB == <<"b">>

FieldsMC == <<"manufacturer", "category">>
FieldsCM == <<"category", "manufacturer">>
FieldsM == <<"manufacturer">>

\* (name, language, fields, web_search) of a cache call: a base request, the
\* same request under another spelling of the name and another field order,
\* and requests that differ from the base in one parameter each.
Requests ==
    { [name |-> NameA, language |-> "ru", fields |-> FieldsMC, web_search |-> TRUE],
      [name |-> NameAVariant, language |-> "ru", fields |-> FieldsCM, web_search |-> TRUE],
      [name |-> NameA, language |-> "en", fields |-> FieldsMC, web_search |-> TRUE],
      [name |-> NameA, language |-> "ru", fields |-> FieldsM, web_search |-> TRUE],
      [name |-> NameA, language |-> "ru", fields |-> FieldsMC, web_search |-> FALSE],
      [name |-> NameB, language |-> "ru", fields |-> FieldsMC, web_search |-> TRUE] }

Enriched == {"E1", "E2"}

\* a live EnrichmentResult as a caller of CacheService.set builds it
SampleResult(name, enriched) ==
    [product |-> [name |-> name, country_origin |-> None],
     enriched |-> enriched,
     specifications |-> SpecificationValue,
     metadata |-> [llm_provider |-> "zhipuai", tokens_used |-> 100,
                   web_search_used |-> TRUE, cached |-> FALSE]]

\* lastOp also counts the CacheService calls made so far: all of them, the
\* gets, the gets that returned a result, and the sets
\* and the in-place changes callers made to results so far
NoOp == [op |-> "none", calls |-> 0, gets |-> 0, found |-> 0, sets |-> 0, mutated |-> {}]

NoCalls == [zhipuai |-> 0, cloudru |-> 0]

IdleCall == [pc |-> "idle", n |-> 0]

IdleClient == [pc |-> "idle", n |-> 0]

cacheVars == <<cache, hits, misses, now>>
serviceVars == <<cloudruConfigured, invoked, call>>
clientVars == <<clientCall>>
edgeVars == <<response, health, parsed, validated, config>>
batchVars == <<request, task, semaphore, order, results, summary, bpc>>
vars == <<cache, hits, misses, now, lastOp, cloudruConfigured, invoked, call, clientCall,
          response, health, parsed, validated, config, request, task, semaphore, order, results, summary, bpc>>

\* no request was answered, no health check made, no completion handled, no
\* product validated and no ConfigurationManager constructed
NoEdge ==
    /\ response = [n |-> 0]
    /\ health = [pc |-> "idle", n |-> 0]
    /\ parsed = [pc |-> "idle", n |-> 0]
    /\ validated = [pc |-> "idle"]
    /\ config = [pc |-> "idle"]

\* no enrich_batch call is made
NoBatch ==
    /\ request = [products |-> <<>>]
    /\ task = <<>>
    /\ semaphore = 0
    /\ order = <<>>
    /\ results = <<>>
    /\ summary = None
    /\ bpc = "idle"

(***************************************************************************)
(* CacheSpec: direct calls of CacheService.                                *)
(***************************************************************************)
CacheInit ==
    /\ cache = <<>>
    /\ hits = 0
    /\ misses = 0
    /\ now = 0
    /\ lastOp = NoOp
    /\ cloudruConfigured = FALSE
    /\ invoked = NoCalls
    /\ call = IdleCall
    /\ clientCall = IdleClient
    /\ NoEdge
    /\ NoBatch

OpsLeft == lastOp.calls < MaxOps

SetsSoFar == lastOp.sets

\* lastOp after one more CacheService call (before: the entries it found)
Record(op, r, ret) ==
    [op |-> op, req |-> r, ret |-> ret, at |-> now, before |-> cache,
     calls |-> lastOp.calls + 1,
     gets |-> lastOp.gets + (IF op = "get" THEN 1 ELSE 0),
     found |-> lastOp.found + (IF op = "get" /\ ret # None THEN 1 ELSE 0),
     sets |-> lastOp.sets + (IF op = "set" THEN 1 ELSE 0),
     mutated |-> lastOp.mutated]

\* CacheService.get(product_name, language, fields, web_search)
Get(r) ==
    /\ OpsLeft
    /\ LET ret == CacheGetResult(cache, now, r.name, r.language, r.fields, r.web_search)
       IN  /\ IF ret # None
              THEN hits' = hits + 1 /\ misses' = misses
              ELSE misses' = misses + 1 /\ hits' = hits
           /\ lastOp' = Record("get", r, ret)
    /\ cache' = CacheGetEntries(cache, now, r.name, r.language, r.fields, r.web_search)
    /\ now' = now
    /\ UNCHANGED <<serviceVars, clientVars, edgeVars, batchVars>>

\* CacheService.set(result, language, fields, web_search)
Set(r, enriched) ==
    /\ OpsLeft
    /\ cache' = CacheSetEntries(cache, now, SampleResult(r.name, enriched),
                                r.language, r.fields, r.web_search)
    /\ lastOp' = Record("set", r, None)
    /\ UNCHANGED <<hits, misses, now>>
    /\ UNCHANGED <<serviceVars, clientVars, edgeVars, batchVars>>

\* CacheService.invalidate(product_name, language, fields, web_search)
Invalidate(r) ==
    /\ OpsLeft
    /\ LET key == GenerateKey(r.name, r.language, r.fields, r.web_search)
       IN  IF TTLCacheContains(cache, key, now)
           THEN /\ cache' = TTLCacheDelete(cache, key)
                /\ lastOp' = Record("invalidate", r, Some(TRUE))
           ELSE /\ cache' = cache
                /\ lastOp' = Record("invalidate", r, Some(FALSE))
    /\ UNCHANGED <<hits, misses, now>>
    /\ UNCHANGED <<serviceVars, clientVars, edgeVars, batchVars>>

\* a clear that also resets the statistics
ClearAndReset ==
    /\ OpsLeft
    /\ cache' = TTLCacheClear(cache)
    /\ lastOp' = Record("clear", None, Some(TTLCacheLen(cache, now)))
    /\ hits' = 0
    /\ misses' = 0
    /\ now' = now
    /\ UNCHANGED <<serviceVars, clientVars, edgeVars, batchVars>>

\* CacheService.clear()
Clear ==
    /\ OpsLeft
    /\ cache' = TTLCacheClear(cache)
    /\ lastOp' = Record("clear", None, Some(TTLCacheLen(cache, now)))
    /\ UNCHANGED <<hits, misses, now>>
    /\ UNCHANGED <<serviceVars, clientVars, edgeVars, batchVars>>

\* CacheService.get_stats() (hit_rate_percent, a float, is left out)
GetStats ==
    /\ OpsLeft
    /\ lastOp' = Record("get_stats", None,
                        Some([size |-> TTLCacheLen(cache, now), max_size |-> CacheMaxSize,
                              ttl_seconds |-> CacheTtl, hits |-> hits, misses |-> misses]))
    /\ UNCHANGED <<cache, hits, misses, now>>
    /\ UNCHANGED <<serviceVars, clientVars, edgeVars, batchVars>>

\* the timer advances
Tick ==
    /\ now < MaxTime
    /\ now' = now + 1
    /\ UNCHANGED <<cache, hits, misses, lastOp>>
    /\ UNCHANGED <<serviceVars, clientVars, edgeVars, batchVars>>

CacheNext ==
    \/ \E r \in Requests : Get(r)
    \/ \E r \in Requests, e \in Enriched : Set(r, e)
    \/ \E r \in Requests : Invalidate(r)
    \/ Clear
    \/ GetStats
    \/ Tick

CacheSpec == CacheInit /\ [][CacheNext]_vars

(***************************************************************************)
(* CopySpec: direct calls of CacheService by a caller that also changes in *)
(* place the results it passed to set or received from get.                *)
(***************************************************************************)
\* the caller changes in place a part of the result it last passed to set or
\* last received from get
Mutate(part) ==
    /\ \/ lastOp.op = "set"
       \/ lastOp.op = "get" /\ lastOp.ret # None
    /\ LET r == lastOp.req
           key == GenerateKey(r.name, r.language, r.fields, r.web_search)
           shared == IF lastOp.op = "set" THEN DumpShares(part) ELSE ValidateShares(part)
       IN  cache' = WriteThrough(cache, key, part, shared)
    /\ lastOp' = [op |-> "mutate", of |-> lastOp.op, part |-> part, req |-> lastOp.req,
                  ret |-> lastOp.ret, at |-> lastOp.at, before |-> lastOp.before,
                  calls |-> lastOp.calls,
                  gets |-> lastOp.gets, found |-> lastOp.found, sets |-> lastOp.sets,
                  mutated |-> lastOp.mutated \cup {<<lastOp.op, part>>}]
    /\ UNCHANGED <<hits, misses, now>>
    /\ UNCHANGED <<serviceVars, clientVars, edgeVars, batchVars>>

CopyRequests ==
    { [name |-> NameA, language |-> "ru", fields |-> FieldsMC, web_search |-> TRUE],
      [name |-> NameB, language |-> "ru", fields |-> FieldsMC, web_search |-> TRUE] }

CopyNext ==
    \/ \E r \in CopyRequests : Get(r)
    \/ \E r \in CopyRequests, e \in Enriched : Set(r, e)
    \/ \E part \in Parts : Mutate(part)
    \/ Tick

CopySpec == CacheInit /\ [][CopyNext]_vars

(***************************************************************************)
(* Claims about CacheService.                                              *)
(***************************************************************************)
\* the arguments of the set call that wrote entry e are those of request g
SameParameters(e, g) ==
    /\ e.src.name = g.name
    /\ e.src.language = g.language
    /\ e.src.fields = g.fields
    /\ e.src.web_search = g.web_search

\* the result passed to the set call that wrote entry e, as a hit returns it
Served(e) == Some([e.src.result EXCEPT !.metadata.cached = TRUE])

\* C10: a get made while the entry of a set with the same name, language,
\* fields and web_search is still in the cache returns the result that was
\* stored, with metadata.cached true; and a get returns a result only if an
\* entry in the cache was set with the same language, the same set of fields
\* and the same web_search (a get that differs in one of them returns None).
C10_GetAfterSet ==
    lastOp.op = "get" =>
        LET g == lastOp.req
            entries == Live(cache, lastOp.at)
        IN  /\ \A e \in entries : SameParameters(e, g) => lastOp.ret = Served(e)
            /\ lastOp.ret # None =>
                   \E e \in entries :
                       /\ e.src.language = g.language
                       /\ FieldSet(e.src.fields) = FieldSet(g.fields)
                       /\ e.src.web_search = g.web_search
                       /\ lastOp.ret = Served(e)

\* C10 witness: a get that hit the entry of the set with its own parameters
\* while the cache also held an entry set for the same name in another language
C10_Witness ==
    /\ lastOp.op = "get"
    /\ lastOp.ret # None
    /\ \E e \in Live(cache, lastOp.at) : SameParameters(e, lastOp.req)
    /\ \E e \in Live(cache, lastOp.at) :
           e.src.name = lastOp.req.name /\ e.src.language # lastOp.req.language

\* the characters of s between its first and its last character that is not
\* a space
Core(s) ==
    LET inked == {i \in 1..Len(s) : s[i] # " "}
    IN  IF inked = {} THEN <<>>
        ELSE SubSeq(s, CHOOSE i \in inked : \A j \in inked : i <= j,
                       CHOOSE i \in inked : \A j \in inked : j <= i)

\* a and b are the same name up to letter case and surrounding whitespace
NameVariants(a, b) ==
    /\ Len(Core(a)) = Len(Core(b))
    /\ \A i \in 1..Len(Core(a)) : CharUpper(Core(a)[i]) = CharUpper(Core(b)[i])

\* f is a permutation of g
Permutation(f, g) ==
    /\ Len(f) = Len(g)
    /\ \E p \in [1..Len(f) -> 1..Len(f)] :
          /\ \A i, j \in 1..Len(f) : p[i] = p[j] => i = j
          /\ \A i \in 1..Len(f) : f[i] = g[p[i]]

WouldGet(c, t, r) == CacheGetResult(c, t, r.name, r.language, r.fields, r.web_search)

\* the step is a get that hit
HitStep == lastOp' # lastOp /\ lastOp'.op = "get" /\ lastOp'.ret # None

\* the step is an in-place change of the result that the last call, a get or
\* a set, returned or was given
MutateStep(of) == lastOp' # lastOp /\ lastOp'.op = "mutate" /\ lastOp'.of = of

\* C12: a hit returns a copy with metadata.cached true and leaves the stored
\* entries as they are (the stored result keeps cached = false, as does the
\* result that was passed to set); changing a returned result in place
\* leaves what every later get returns as it was
C12_FreshCopy ==
    [][ /\ HitStep =>
              /\ Value(lastOp'.ret).metadata.cached
              /\ cache' = cache
              /\ \A i \in 1..Len(cache) :
                    ~cache[i].value.cached /\ ~cache[i].src.result.metadata.cached
        /\ MutateStep("get") =>
              \A r \in Requests : WouldGet(cache', now', r) = WouldGet(cache, now, r)
      ]_vars

\* C13: set stores a deep snapshot: changing in place the result that was
\* passed to set, or a list or dict nested in it, leaves the stored entries,
\* and so what every later get returns, as they were
C13_DeepSnapshot ==
    [][ MutateStep("set") =>
            /\ cache' = cache
            /\ \A r \in Requests : WouldGet(cache', now', r) = WouldGet(cache, now, r)
      ]_vars

\* a get that hit the entry of a set whose result was afterwards changed in
\* place, in an attribute and in a nested container, and that returned the
\* result as it was when set
C13_Witness ==
    /\ lastOp.op = "get"
    /\ lastOp.ret # None
    /\ lastOp.mutated = {<<"set", "specifications">>}
    /\ \E e \in Live(cache, lastOp.at) :
          /\ SameParameters(e, lastOp.req)
          /\ lastOp.ret = Served(e)
          /\ Value(lastOp.ret).specifications = SpecificationValue

\* the keys of the entries of c
Keys(c) == {c[i].key : i \in 1..Len(c)}

\* the key CacheService computes for request r
KeyOf(r) == GenerateKey(r.name, r.language, r.fields, r.web_search)

\* C14: in every reachable state the cache holds at most max_size entries,
\* and a set of a new key into a full cache puts the new entry in and an
\* existing entry out, without growing the cache
C14_SizeBounded ==
    /\ Len(cache) <= CacheMaxSize
    /\ Cardinality(Keys(cache)) = Len(cache)
    /\ ( /\ lastOp.op = "set"
         /\ TTLCacheLen(lastOp.before, lastOp.at) = CacheMaxSize
         /\ KeyOf(lastOp.req) \notin Keys(Expire(lastOp.before, lastOp.at)) )
       => /\ Len(cache) = CacheMaxSize
          /\ KeyOf(lastOp.req) \in Keys(cache)
          /\ \E k \in Keys(Expire(lastOp.before, lastOp.at)) : k \notin Keys(cache)

\* a set of a new key into a cache full of live entries
C14_Witness ==
    /\ lastOp.op = "set"
    /\ TTLCacheLen(lastOp.before, lastOp.at) = CacheMaxSize
    /\ KeyOf(lastOp.req) \notin Keys(lastOp.before)
    /\ Len(cache) = CacheMaxSize
    /\ cache[Len(cache)].key = KeyOf(lastOp.req)
    /\ lastOp.before[1].key \notin Keys(cache)

\* the entries the last call found under the key of its request
FoundUnderKey == {e \in {lastOp.before[i] : i \in 1..Len(lastOp.before)} : e.key = KeyOf(lastOp.req)}

\* C15: a get for a key whose entry was stored ttl_seconds or more ago is a
\* miss: it returns None and counts as a miss, whatever happened in between
\* (nothing, or hits of that entry)
C15_ExpiredIsMiss ==
    ( /\ lastOp.op = "get"
      /\ \A e \in FoundUnderKey : lastOp.at - e.src.at >= CacheTtl )
    => /\ lastOp.ret = None
       /\ misses = lastOp.gets - lastOp.found
       /\ hits = lastOp.found

\* a get, exactly ttl_seconds after the only set, for the entry that an
\* earlier get had hit
C15_Witness ==
    /\ lastOp.op = "get"
    /\ lastOp.ret = None
    /\ lastOp.sets = 1
    /\ lastOp.found = 1
    /\ misses = 1
    /\ \E e \in FoundUnderKey : lastOp.at - e.src.at = CacheTtl

\* the items of the running batch whose enrich_product made its cache lookup
LookedUp ==
    {i \in DOMAIN task : request.use_cache /\ task[i].accessed /\ task[i].outcome # "cache"}

LiveBefore == {e \in {lastOp.before[i] : i \in 1..Len(lastOp.before)} : lastOp.at - e.src.at < CacheTtl}

\* the entries the last call found, without those under the key of its request
OthersBefore == SelectSeq(lastOp.before, LAMBDA e : e.key # KeyOf(lastOp.req))

\* C17: invalidate returns true and removes exactly the entry under the key
\* of its (name, language, fields, web_search) when that entry is present,
\* and returns false otherwise; every other entry and both counters are as
\* before, and a get for that key that follows is a miss
C17_Invalidate ==
    lastOp.op = "invalidate" =>
        /\ lastOp.ret = Some(\E e \in LiveBefore : e.key = KeyOf(lastOp.req))
        /\ IF lastOp.ret = Some(TRUE) THEN cache = OthersBefore ELSE cache = lastOp.before
        /\ OthersBefore = SelectSeq(cache, LAMBDA e : e.key # KeyOf(lastOp.req))
        /\ hits = lastOp.found
        /\ misses = lastOp.gets - lastOp.found
        /\ WouldGet(cache, now, lastOp.req) = None

\* an invalidate that removed one of two live entries and left the other
C17_Witness ==
    /\ lastOp.op = "invalidate"
    /\ lastOp.ret = Some(TRUE)
    /\ Len(lastOp.before) = 2
    /\ Len(cache) = 1
    /\ cache[1] \in LiveBefore

(***************************************************************************)
(* ProductEnricherService: routing and enrich_product.                     *)
(***************************************************************************)
RUSSIAN_COUNTRY_CODES == {<<"R", "U">>, <<"R", "U", "S">>}

\* a routing that compares the country code as it is written
SelectClientCaseSensitive(country_origin, configured) ==
    IF country_origin # None /\ country_origin \in RUSSIAN_COUNTRY_CODES /\ configured
    THEN "cloudru"
    ELSE "zhipuai"

\* ProductEnricherService._select_client; a client is named by its provider_name
SelectClient(country_origin, configured) ==
    IF country_origin # None /\ Upper(country_origin) \in RUSSIAN_COUNTRY_CODES /\ configured
    THEN "cloudru"
    ELSE "zhipuai"

\* a lookup that is never made
CacheLookupSkipped(c, t, product, options, use_cache) == None

\* a lookup that serves a cached result only to a request of the same
\* country_origin, as a fingerprint that included the origin would
CacheLookupSameOrigin(c, t, product, options, use_cache) ==
    LET found == CacheGetResult(c, t, product.name, options.language, options.fields,
                                options.include_web_search)
    IN  IF use_cache /\ found # None
           /\ Value(found).product.country_origin = product.country_origin
        THEN found
        ELSE None

\* enrich_product, "Check cache first": what the lookup yields (None without use_cache)
CacheLookup(c, t, product, options, use_cache) ==
    IF use_cache
    THEN CacheGetResult(c, t, product.name, options.language, options.fields,
                        options.include_web_search)
    ELSE None

\* a result whose web_search_used repeats the request flag
BuildResultAsRequested(product, options, client, answer) ==
    [product |-> product,
     enriched |-> answer.enriched,
     specifications |-> SpecificationValue,
     metadata |-> [llm_provider |-> client,
                   tokens_used |-> answer.tokens_used,
                   web_search_used |-> options.include_web_search,
                   cached |-> FALSE]]

\* enrich_product, "Build result with provider info"
BuildResult(product, options, client, answer) ==
    [product |-> product,
     enriched |-> answer.enriched,
     specifications |-> SpecificationValue,
     metadata |-> [llm_provider |-> client,
                   tokens_used |-> answer.tokens_used,
                   web_search_used |-> options.include_web_search /\ client = "zhipuai",
                   cached |-> FALSE]]

\* a store that is made whatever use_cache is
CacheStoreAlways(c, t, result, options, use_cache) ==
    CacheSetEntries(c, t, result, options.language, options.fields,
                    options.include_web_search)

\* enrich_product, "Cache the result": the entries after the call
CacheStore(c, t, result, options, use_cache) ==
    IF use_cache
    THEN CacheSetEntries(c, t, result, options.language, options.fields,
                         options.include_web_search)
    ELSE c

Origins == {None, <<"r", "u">>, <<"R", "U", "S">>, <<"C", "N">>}

Products == [name : {NameA, NameAVariant}, country_origin : Origins]

OptionSet == [include_web_search : BOOLEAN, language : {"ru"}, fields : {FieldsMC}]

\* what a provider client's enrich_product returns: (enriched, tokens_used)
ProviderAnswers ==
    { [enriched |-> "E1", tokens_used |-> 100],
      [enriched |-> "E2", tokens_used |-> 250] }

\* the store holds a live entry written for the fingerprint of (product, options)
EntryLive(c, t, product, options) ==
    \E e \in Live(c, t) :
        /\ Strip(Lower(e.src.name)) = Strip(Lower(product.name))
        /\ e.src.language = options.language
        /\ Sorted(e.src.fields) = Sorted(options.fields)
        /\ e.src.web_search = options.include_web_search

Init ==
    /\ cache = <<>>
    /\ hits = 0
    /\ misses = 0
    /\ now = 0
    /\ lastOp = NoOp
    /\ cloudruConfigured \in BOOLEAN
    /\ invoked = NoCalls
    /\ call = IdleCall
    /\ clientCall = IdleClient
    /\ NoEdge
    /\ NoBatch

\* the exceptions raised inside enrich_product: by the client's
\* enrich_product (its API error), and by CacheService.get or CacheService.set
ProviderError(client) == [type |-> "ProviderAPIError", provider |-> client]

CacheFault == [type |-> "Exception", provider |-> "none"]

\* the places of enrich_product that the try block covers: the provider call
\* and the cache store; the cache lookup comes before it
InTry(place) == place \in {"provider", "store"}

\* what reaches the caller of enrich_product when exception e is raised at
\* place: inside the try block e is wrapped into an EnrichmentError
Raised(place, e, product) ==
    IF InTry(place)
    THEN [type |-> "EnrichmentError", product_name |-> product.name,
          stage |-> "api_call", cause |-> e]
    ELSE e

\* enrich_product(product, options, use_cache) up to its first await: the
\* client is selected, the cache is consulted, and on a miss the selected
\* client's enrich_product is called
Call(product, options, use_cache) ==
    /\ call.pc \in {"idle", "returned", "raised"}
    /\ call.n < MaxCalls
    /\ LET client == SelectClient(product.country_origin, cloudruConfigured)
           cached == CacheLookup(cache, now, product, options, use_cache)
           started == [pc |-> "awaiting", n |-> call.n + 1, product |-> product,
                       options |-> options, use_cache |-> use_cache, client |-> client,
                       entryLive |-> EntryLive(cache, now, product, options),
                       invokedBefore |-> invoked, result |-> None,
                       thrown |-> None, error |-> None]
       IN  /\ hits' = IF use_cache /\ cached # None THEN hits + 1 ELSE hits
           /\ misses' = IF use_cache /\ cached = None THEN misses + 1 ELSE misses
           /\ IF cached # None
              THEN /\ call' = [started EXCEPT !.pc = "returned", !.result = cached]
                   /\ invoked' = invoked
              ELSE /\ call' = started
                   /\ invoked' = [invoked EXCEPT ![client] = @ + 1]
    /\ UNCHANGED <<cache, now, lastOp, cloudruConfigured>>
    /\ UNCHANGED <<clientVars, edgeVars, batchVars>>

\* the client's enrich_product returns: the result is built, cached and returned
ProviderReturn(answer) ==
    /\ call.pc = "awaiting"
    /\ LET result == BuildResult(call.product, call.options, call.client, answer)
       IN  /\ cache' = CacheStore(cache, now, result, call.options, call.use_cache)
           /\ call' = [call EXCEPT !.pc = "returned", !.result = Some(result)]
    /\ UNCHANGED <<hits, misses, now, lastOp, cloudruConfigured, invoked>>
    /\ UNCHANGED <<clientVars, edgeVars, batchVars>>

\* an except clause that turns to the other provider's client
FallbackToOther(client) == Some(IF client = "zhipuai" THEN "cloudru" ELSE "zhipuai")

\* the client enrich_product calls after the selected one raised: its except
\* clause only logs and raises, so there is none
Fallback(client) == None

\* the client's enrich_product raises: enrich_product raises EnrichmentError
ProviderRaise ==
    /\ call.pc = "awaiting"
    /\ IF Fallback(call.client) = None
       THEN /\ call' = [call EXCEPT !.pc = "raised",
                            !.thrown = Some(ProviderError(call.client)),
                            !.error = Some(Raised("provider", ProviderError(call.client),
                                                  call.product))]
            /\ invoked' = invoked
       ELSE /\ call' = [call EXCEPT !.client = Value(Fallback(call.client))]
            /\ invoked' = [invoked EXCEPT ![Value(Fallback(call.client))] = @ + 1]
    /\ UNCHANGED <<cache, hits, misses, now, lastOp, cloudruConfigured>>
    /\ UNCHANGED <<clientVars, edgeVars, batchVars>>

Next ==
    \/ \E p \in Products, o \in OptionSet, u \in BOOLEAN : Call(p, o, u)
    \/ \E a \in ProviderAnswers : ProviderReturn(a)
    \/ ProviderRaise
    \/ Tick

Spec == Init /\ [][Next]_vars

(***************************************************************************)
(* FaultSpec: enrich_product calls in which the cache may raise as well.   *)
(***************************************************************************)
\* enrich_product(product, options, use_cache=True) whose cache lookup raises
CallLookupRaise(product, options) ==
    /\ call.pc \in {"idle", "returned", "raised"}
    /\ call.n < MaxCalls
    /\ call' = [pc |-> "raised", n |-> call.n + 1, product |-> product,
                options |-> options, use_cache |-> TRUE,
                client |-> SelectClient(product.country_origin, cloudruConfigured),
                entryLive |-> EntryLive(cache, now, product, options),
                invokedBefore |-> invoked, result |-> None,
                thrown |-> Some(CacheFault),
                error |-> Some(Raised("lookup", CacheFault, product))]
    /\ UNCHANGED <<cache, hits, misses, now, lastOp, cloudruConfigured, invoked>>
    /\ UNCHANGED <<clientVars, edgeVars, batchVars>>

\* the client's enrich_product returned and CacheService.set raises
StoreRaise ==
    /\ call.pc = "awaiting"
    /\ call.use_cache
    /\ call' = [call EXCEPT !.pc = "raised",
                            !.thrown = Some(CacheFault),
                            !.error = Some(Raised("store", CacheFault, call.product))]
    /\ UNCHANGED <<cache, hits, misses, now, lastOp, cloudruConfigured, invoked>>
    /\ UNCHANGED <<clientVars, edgeVars, batchVars>>

FaultNext ==
    \/ \E p \in Products, o \in OptionSet, u \in BOOLEAN : Call(p, o, u)
    \/ \E p \in Products, o \in OptionSet : CallLookupRaise(p, o)
    \/ \E a \in ProviderAnswers : ProviderReturn(a)
    \/ ProviderRaise
    \/ StoreRaise

FaultSpec == Init /\ [][FaultNext]_vars

(***************************************************************************)
(* Claims about enrich_product.                                            *)
(***************************************************************************)
\* the call in progress, or the last one, reached a provider (it was not
\* answered from the cache)
ReachedProvider ==
    \/ call.pc \in {"awaiting", "raised"}
    \/ call.pc = "returned" /\ ~Value(call.result).metadata.cached

\* the routing rule of the claim: the origin, compared without regard to
\* case, is RU or RUS, and the regional client is configured
RoutedRegional ==
    /\ call.product.country_origin # None
    /\ Lower(call.product.country_origin) \in {<<"r", "u">>, <<"r", "u", "s">>}
    /\ cloudruConfigured

\* C8: a call of enrich_product that reaches a provider invokes the regional
\* (Cloud.ru) client exactly when the product's country_origin is RU or RUS
\* in any letter case and the regional client is configured, and the primary
\* (Zhipu) client in every other case; it invokes that client once and the
\* other not at all, and a live result names the invoked provider in
\* metadata.llm_provider.
C8_Routing ==
    ReachedProvider =>
        LET expected == IF RoutedRegional THEN "cloudru" ELSE "zhipuai"
            other == IF RoutedRegional THEN "zhipuai" ELSE "cloudru"
        IN  /\ invoked[expected] = call.invokedBefore[expected] + 1
            /\ invoked[other] = call.invokedBefore[other]
            /\ call.pc = "returned" =>
                   Value(call.result).metadata.llm_provider = expected

\* C8 witness: a product of origin "ru" (lower case), with the regional client
\* configured, was answered live by the regional provider
C8_Witness ==
    /\ call.pc = "returned"
    /\ ~Value(call.result).metadata.cached
    /\ call.product.country_origin = <<"r", "u">>
    /\ cloudruConfigured
    /\ Value(call.result).metadata.llm_provider = "cloudru"
    /\ invoked["cloudru"] = call.invokedBefore["cloudru"] + 1

\* C9: a call of enrich_product with use_cache true, made while the cache
\* still holds the entry that an earlier successful call stored for the same
\* fingerprint (name, language, fields, web-search flag), returns a result
\* with metadata.cached true and invokes no provider.
C9_CachedRepeat ==
    (call.pc # "idle" /\ call.use_cache /\ call.entryLive) =>
        /\ call.pc = "returned"
        /\ Value(call.result).metadata.cached
        /\ invoked = call.invokedBefore

\* C9 witness: the second call for a fingerprint was served from the cache and
\* the provider call count is still 1
C9_Witness ==
    /\ call.pc = "returned"
    /\ call.use_cache
    /\ call.entryLive
    /\ call.n = 2
    /\ Value(call.result).metadata.cached
    /\ invoked["zhipuai"] + invoked["cloudru"] = 1
    /\ hits = 1

\* C21: a live (non-cached) result has metadata.web_search_used true exactly
\* when options.include_web_search is true and the answering provider is the
\* primary one (zhipuai); every result produced by the regional provider
\* (cloudru), served live or from the cache, has web_search_used false.
C21_WebSearchUsed ==
    call.pc = "returned" =>
        LET m == Value(call.result).metadata
        IN  /\ ~m.cached =>
                 (m.web_search_used <=>
                      (call.options.include_web_search /\ m.llm_provider = "zhipuai"))
            /\ m.llm_provider = "cloudru" => ~m.web_search_used

\* C21 witness: the regional provider answered live a request that asked for
\* web search, and the result says no web search was used
C21_Witness ==
    /\ call.pc = "returned"
    /\ ~Value(call.result).metadata.cached
    /\ call.options.include_web_search
    /\ call.client = "cloudru"
    /\ Value(call.result).metadata.llm_provider = "cloudru"
    /\ ~Value(call.result).metadata.web_search_used

\* a call made with use_cache false invoked its provider once and was not
\* answered from the cache
C27_ProviderInvoked ==
    (call.pc # "idle" /\ ~call.use_cache) =>
        /\ invoked[call.client] = call.invokedBefore[call.client] + 1
        /\ call.pc = "returned" => ~Value(call.result).metadata.cached

\* a step of a call made with use_cache false leaves the cache entries and
\* the hit and miss counters as they were
C27_CacheUntouched ==
    (call' # call /\ ~call'.use_cache) =>
        /\ cache' = cache
        /\ hits' = hits
        /\ misses' = misses

\* C27: enrich_product with use_cache false neither reads nor writes the
\* cache: the provider is invoked on every such call, and the cache entries
\* and the hit and miss counters are the same after the call as before it.
C27_NoCacheUse == []C27_ProviderInvoked /\ [][C27_CacheUntouched]_vars

\* C27 witness: while the cache held a live entry for the same fingerprint,
\* a call with use_cache false was answered live by the provider; the cache
\* still holds that one entry and no hit or second miss was counted
C27_Witness ==
    /\ call.pc = "returned"
    /\ ~call.use_cache
    /\ call.entryLive
    /\ call.n = 2
    /\ ~Value(call.result).metadata.cached
    /\ invoked["zhipuai"] + invoked["cloudru"] = 2
    /\ Len(cache) = 1
    /\ hits = 0
    /\ misses = 1

\* C28: the cache fingerprint excludes country_origin: while the cache holds
\* the entry of a product enriched with use_cache true, a request with the
\* same name and options, whatever its country_origin (also one that routes
\* to the other provider), is served the cached result, which carries the
\* product and the metadata.llm_provider of the request that was originally
\* answered; the provider selected for the new request is not invoked.
C28_OriginNotInFingerprint ==
    (call.pc # "idle" /\ call.use_cache /\ call.entryLive) =>
        /\ call.pc = "returned"
        /\ LET r == Value(call.result)
           IN  /\ r.metadata.cached
               /\ r.metadata.llm_provider =
                      SelectClient(r.product.country_origin, cloudruConfigured)
               /\ invoked[call.client] = call.invokedBefore[call.client]
               /\ invoked[r.metadata.llm_provider] =
                      call.invokedBefore[r.metadata.llm_provider]

\* C28 witness: a product of origin "ru" was enriched by the regional
\* provider; the same name with origin "CN", which routes to the primary
\* provider, was then served the cached regional result and the primary
\* provider was never invoked
C28_Witness ==
    /\ call.pc = "returned"
    /\ call.use_cache
    /\ call.entryLive
    /\ call.product.country_origin = <<"C", "N">>
    /\ call.client = "zhipuai"
    /\ Value(call.result).metadata.cached
    /\ Value(call.result).metadata.llm_provider = "cloudru"
    /\ Value(call.result).product.country_origin = <<"r", "u">>
    /\ invoked = [zhipuai |-> 0, cloudru |-> 1]

\* C34: the provider of a call is chosen once, before the cache lookup, and
\* never revisited: the call keeps the client that the routing rule selects
\* for its product, at most one provider is invoked per call, and when the
\* chosen provider fails the call raises without invoking the other one.
C34_OneProviderPerCall ==
    call.pc # "idle" =>
        LET other == IF call.client = "zhipuai" THEN "cloudru" ELSE "zhipuai"
        IN  /\ call.client = SelectClient(call.product.country_origin, cloudruConfigured)
            /\ invoked[other] = call.invokedBefore[other]
            /\ invoked[call.client] <= call.invokedBefore[call.client] + 1
            /\ call.pc = "raised" =>
                   /\ Value(call.thrown) # ProviderError(other)
                   /\ Value(call.thrown) = ProviderError(call.client) =>
                          invoked[call.client] = call.invokedBefore[call.client] + 1

\* C34 witness: the regional provider, chosen for a product of origin RUS,
\* failed; the call raised and the primary provider was not invoked
C34_Witness ==
    /\ call.pc = "raised"
    /\ call.client = "cloudru"
    /\ call.product.country_origin = <<"R", "U", "S">>
    /\ invoked = [zhipuai |-> 0, cloudru |-> 1]

\* C38: for every enrich_product call that returns, result.product equals
\* the product passed by the caller, also when the result is served from the
\* cache after an earlier call whose product had the same normalized name
\* but a different country_origin or letter case.
C38_ProductIsCallers ==
    call.pc = "returned" => Value(call.result).product = call.product

(***************************************************************************)
(* ProductEnricherService.enrich_batch.  A task is process_product(i,      *)
(* product); its pc is "new" (not created yet), "waiting" (for a slot of   *)
(* the semaphore), "acquired" (holds a slot, enrich_product not started),  *)
(* "awaiting" (the provider call is in flight) or "done" (its              *)
(* BatchResultItem is produced and the slot released).  An outcome is what *)
(* ended the wait_for around enrich_product: "ok", "cached", "provider"    *)
(* (the client raised), "cache" (the cache lookup raised) or "timeout".    *)
(* Time is counted in instants one timeout_per_product apart: waited is    *)
(* the number of them that passed while the task waited for a slot, ran    *)
(* the number that passed since its wait_for began.                        *)
(***************************************************************************)
DefaultTimeout == 60

TimeoutMessage(seconds) == <<"Timeout after ", seconds, "s">>

\* str(e) of the exception that ended enrich_product
ErrorText(outcome) ==
    IF outcome = "provider" THEN <<"Failed to enrich product">> ELSE <<"cache error">>

\* process_product without its "except TimeoutError" clause
ItemForNoTimeoutClause(index, outcome, result, seconds) ==
    IF outcome \in {"ok", "cached"}
    THEN [index |-> index, success |-> TRUE, result |-> Some(result), error |-> None]
    ELSE [index |-> index, success |-> FALSE, result |-> None,
          error |-> IF outcome = "timeout" THEN <<"">> ELSE ErrorText(outcome)]

\* process_product: the BatchResultItem for what wait_for gave
ItemFor(index, outcome, result, seconds) ==
    IF outcome \in {"ok", "cached"}
    THEN [index |-> index, success |-> TRUE, result |-> Some(result), error |-> None]
    ELSE IF outcome = "timeout"
    THEN [index |-> index, success |-> FALSE, result |-> None,
          error |-> TimeoutMessage(seconds)]
    ELSE [index |-> index, success |-> FALSE, result |-> None, error |-> ErrorText(outcome)]

\* process_product that lets the exceptions of enrich_product through
EscapesProviderErrors(outcome) == outcome \in {"provider", "cache"}

\* process_product: the exceptions that leave it (none: "except Exception")
Escapes(outcome) == FALSE

\* a semaphore that admits everyone
SlotFreeAlways == TRUE

\* "async with semaphore": a slot is free
SlotFree == semaphore > 0

\* every task is created at once, whatever the strategy
TaskCreatedAlways(fail_strategy, i) == TRUE

\* the tasks that exist when processing starts: all of them under "continue"
\* (gather), the first one under "stop" (the loop awaits them one by one)
TaskCreated(fail_strategy, i) == fail_strategy = "continue" \/ i = 0

\* a loop that never breaks
BreakOnFailureNever(item) == FALSE

\* the "stop" loop: break after a failing item
BreakOnFailure(item) == ~item.success

\* the items in the order they were produced
GatherCompletionOrder == [k \in 1..Len(order) |-> task[order[k]].item]

\* asyncio.gather(*tasks): the items in the order of the tasks
Gather == [k \in 1..Len(request.products) |-> task[k - 1].item]

RECURSIVE CountSucceeded(_)
CountSucceeded(rs) ==
    IF rs = <<>> THEN 0
    ELSE (IF Head(rs).success /\ Head(rs).result # None THEN 1 ELSE 0)
         + CountSucceeded(Tail(rs))

RECURSIVE SumTokens(_)
SumTokens(rs) ==
    IF rs = <<>> THEN 0
    ELSE (IF Head(rs).success /\ Head(rs).result # None
          THEN Value(Head(rs).result).metadata.tokens_used ELSE 0)
         + SumTokens(Tail(rs))

\* a summary whose total is the number of submitted products
SummariseSubmitted(rs) ==
    [total |-> Len(request.products),
     succeeded |-> CountSucceeded(rs),
     failed |-> Len(rs) - CountSucceeded(rs),
     total_tokens |-> SumTokens(rs)]

\* enrich_batch, "Calculate summary"
Summarise(rs) ==
    [total |-> Len(rs),
     succeeded |-> CountSucceeded(rs),
     failed |-> Len(rs) - CountSucceeded(rs),
     total_tokens |-> SumTokens(rs)]

\* the submitted products: two spellings of one name, routed to the two
\* providers, in turn
BatchProduct(k) ==
    IF k % 2 = 1
    THEN [name |-> NameA, country_origin |-> None]
    ELSE [name |-> NameAVariant, country_origin |-> <<"r", "u">>]

ProductLists == {[k \in 1..n |-> BatchProduct(k)] : n \in 1..MaxProducts}

DefaultOptions == [include_web_search |-> TRUE, language |-> "ru", fields |-> FieldsMC]

Indices == DOMAIN task

InFlight == {i \in Indices : task[i].pc \in {"acquired", "awaiting"}}

BatchInit ==
    /\ cache = <<>>
    /\ hits = 0
    /\ misses = 0
    /\ now = 0
    /\ lastOp = NoOp
    /\ cloudruConfigured = TRUE
    /\ invoked = NoCalls
    /\ call = IdleCall
    /\ clientCall = IdleClient
    /\ NoEdge
    /\ request \in [products : ProductLists,
                    options : {DefaultOptions},
                    max_concurrent : 1..MaxConcurrent,
                    fail_strategy : {"continue", "stop"},
                    timeout_per_product : {DefaultTimeout},
                    use_cache : BOOLEAN]
    /\ task = [i \in 0..(Len(request.products) - 1) |->
                 [pc |-> IF TaskCreated(request.fail_strategy, i) THEN "waiting" ELSE "new",
                  product |-> request.products[i + 1],
                  outcome |-> "none",
                  accessed |-> FALSE,
                  beside |-> {},
                  waited |-> 0,
                  ran |-> 0,
                  item |-> None]]
    /\ semaphore = request.max_concurrent
    /\ order = <<>>
    /\ results = <<>>
    /\ summary = None
    /\ bpc = "running"

\* "async with semaphore": the task takes a slot
Acquire(i) ==
    /\ bpc \in {"running", "raised"}
    /\ task[i].pc = "waiting"
    /\ SlotFree
    /\ semaphore' = semaphore - 1
    /\ task' = [task EXCEPT ![i].pc = "acquired"]
    /\ UNCHANGED <<cacheVars, lastOp, serviceVars, clientVars, edgeVars, request, order, results, summary, bpc>>

\* wait_for ended for task i with this outcome: the item is produced and the
\* slot released; under "stop" the loop appends the item and either breaks or
\* creates the next task; an exception that escapes process_product makes
\* enrich_batch raise
Finish(i, outcome, result) ==
    LET item == ItemFor(i, outcome, result, request.timeout_per_product)
        last == i = Len(request.products) - 1
        stop == request.fail_strategy = "stop"
        finished == [task EXCEPT ![i].pc = "done", ![i].outcome = outcome,
                                 ![i].item = item, ![i].accessed = TRUE,
                                 ![i].beside = IF outcome = "timeout"
                                               THEN InFlight \ {i} ELSE {}]
    IN  /\ semaphore' = semaphore + 1
        /\ order' = Append(order, i)
        /\ bpc' = IF Escapes(outcome) THEN "raised" ELSE bpc
        /\ results' = IF stop /\ ~Escapes(outcome) THEN Append(results, item) ELSE results
        /\ task' = IF stop /\ ~Escapes(outcome) /\ ~BreakOnFailure(item) /\ ~last
                   THEN [finished EXCEPT ![i + 1].pc = "waiting"]
                   ELSE finished
        /\ UNCHANGED <<now, lastOp, cloudruConfigured, call, clientCall, edgeVars, request, summary>>

\* enrich_product of task i up to its first await: the client is selected,
\* the cache consulted, and on a miss the client's enrich_product is called
Start(i) ==
    /\ task[i].pc = "acquired"
    /\ LET product == task[i].product
           client == SelectClient(product.country_origin, cloudruConfigured)
           cached == CacheLookup(cache, now, product, request.options, request.use_cache)
       IN  /\ hits' = IF request.use_cache /\ cached # None THEN hits + 1 ELSE hits
           /\ misses' = IF request.use_cache /\ cached = None THEN misses + 1 ELSE misses
           /\ cache' = cache
           /\ IF cached # None
              THEN /\ Finish(i, "cached", Value(cached))
                   /\ invoked' = invoked
              ELSE /\ task' = [task EXCEPT ![i].pc = "awaiting", ![i].accessed = TRUE]
                   /\ invoked' = [invoked EXCEPT ![client] = @ + 1]
                   /\ UNCHANGED <<now, lastOp, cloudruConfigured, call, clientCall, edgeVars, request,
                                  semaphore, order, results, summary, bpc>>

\* the cache lookup of task i raises
TaskCacheFault(i) ==
    /\ task[i].pc = "acquired"
    /\ request.use_cache
    /\ Finish(i, "cache", None)
    /\ UNCHANGED <<cache, hits, misses, invoked>>

\* the provider call of task i returns: the result is built and cached
TaskReturn(i, answer) ==
    /\ task[i].pc = "awaiting"
    /\ LET product == task[i].product
           client == SelectClient(product.country_origin, cloudruConfigured)
           result == BuildResult(product, request.options, client, answer)
       IN  /\ cache' = CacheStore(cache, now, result, request.options, request.use_cache)
           /\ Finish(i, "ok", result)
    /\ UNCHANGED <<hits, misses, invoked>>

\* the provider call of task i raises: enrich_product raises EnrichmentError
TaskRaise(i) ==
    /\ task[i].pc = "awaiting"
    /\ Finish(i, "provider", None)
    /\ UNCHANGED <<cache, hits, misses, invoked>>

\* a wait_for given no timeout
ExpiredNever(i) == FALSE

\* a deadline counted from the creation of the task
ExpiredSinceCreation(i) == task[i].waited + task[i].ran >= 1

\* wait_for(..., timeout=timeout_per_product): the deadline of task i may
\* have been reached; the wait began inside "async with semaphore"
Expired(i) == task[i].ran >= 1

\* a timeout after which the cancelled call still stores a result
TaskTimeoutStoring(i) ==
    /\ task[i].pc = "awaiting"
    /\ Expired(i)
    /\ LET product == task[i].product
           client == SelectClient(product.country_origin, cloudruConfigured)
           result == BuildResult(product, request.options, client,
                                 [enriched |-> "E1", tokens_used |-> 100])
       IN  cache' = CacheStore(cache, now, result, request.options, request.use_cache)
    /\ Finish(i, "timeout", None)
    /\ UNCHANGED <<hits, misses, invoked>>

\* timeout_per_product expires while the provider call of task i is in
\* flight: wait_for cancels the call and raises TimeoutError
TaskTimeout(i) ==
    /\ task[i].pc = "awaiting"
    /\ Expired(i)
    /\ Finish(i, "timeout", None)
    /\ UNCHANGED <<cache, hits, misses, invoked>>

\* the event loop has nothing to run and the next instant passes: every
\* provider call in flight has been in flight for less than its timeout,
\* since wait_for ends a call at its deadline
Elapse ==
    /\ bpc = "running"
    /\ \E i \in Indices : task[i].pc = "awaiting"
    /\ \A i \in Indices : task[i].pc # "acquired"
    /\ \A i \in Indices : task[i].pc = "waiting" => ~SlotFree
    /\ \A i \in Indices : task[i].pc = "awaiting" => ~Expired(i)
    /\ task' = [i \in Indices |->
                  IF task[i].pc = "awaiting"
                  THEN [task[i] EXCEPT !.ran = IF @ < MaxRan THEN @ + 1 ELSE @]
                  ELSE IF task[i].pc = "waiting"
                  THEN [task[i] EXCEPT !.waited = @ + 1]
                  ELSE task[i]]
    /\ UNCHANGED <<cacheVars, lastOp, serviceVars, clientVars, edgeVars, request, semaphore,
                   order, results, summary, bpc>>

\* the processing is over: gather has every item, or the loop has ended
Collected ==
    IF request.fail_strategy = "continue"
    THEN \A i \in Indices : task[i].pc = "done"
    ELSE \A i \in Indices : task[i].pc \in {"done", "new"}

\* enrich_batch computes the summary and returns
BatchReturn ==
    /\ bpc = "running"
    /\ Collected
    /\ results' = IF request.fail_strategy = "continue" THEN Gather ELSE results
    /\ summary' = Some(Summarise(results'))
    /\ bpc' = "returned"
    /\ UNCHANGED <<cacheVars, lastOp, serviceVars, clientVars, edgeVars, request, task, semaphore, order>>

BatchNext ==
    \/ \E i \in Indices : Acquire(i)
    \/ \E i \in Indices : Start(i)
    \/ \E i \in Indices : TaskCacheFault(i)
    \/ \E i \in Indices, a \in ProviderAnswers : TaskReturn(i, a)
    \/ \E i \in Indices : TaskRaise(i)
    \/ \E i \in Indices : TaskTimeout(i)
    \/ Elapse
    \/ BatchReturn

BatchSpec == BatchInit /\ [][BatchNext]_vars

\* what the event loop does by itself: it runs a task that is ready, its
\* clock advances, and the timer of wait_for fires; a provider's answer is
\* not among these
LoopStep ==
    \/ \E i \in Indices : Acquire(i)
    \/ \E i \in Indices : Start(i)
    \/ \E i \in Indices : TaskTimeout(i)
    \/ Elapse
    \/ BatchReturn

\* the event loop does not stop while it has something to do
BatchFairness == WF_vars(LoopStep)

\* the steps of a batch whose providers, when they answer, give one answer
LiveBatchNext ==
    \/ LoopStep
    \/ \E i \in Indices : TaskCacheFault(i)
    \/ \E i \in Indices : TaskReturn(i, [enriched |-> "E1", tokens_used |-> 100])
    \/ \E i \in Indices : TaskRaise(i)

LiveBatchSpec == BatchInit /\ [][LiveBatchNext]_vars /\ BatchFairness

(***************************************************************************)
(* Claims about enrich_batch.                                              *)
(***************************************************************************)
Continue == bpc # "idle" /\ request.fail_strategy = "continue"

Stop == bpc # "idle" /\ request.fail_strategy = "stop"

Done(i) == task[i].pc = "done"

Failed(i) == Done(i) /\ task[i].outcome \in {"provider", "cache", "timeout"}

Succeeded(i) == Done(i) /\ task[i].outcome \in {"ok", "cached"}

\* C1: during an enrich_batch call, under either strategy and for any batch
\* size, the number of enrichments that hold a slot and have not finished is
\* at most batch_options.max_concurrent
C1_BoundedInFlight ==
    bpc # "idle" => Cardinality(InFlight) <= request.max_concurrent

\* more products than slots: every slot is taken and a task is waiting
C1_Witness ==
    /\ bpc = "running"
    /\ request.max_concurrent = 2
    /\ Cardinality(InFlight) = 2
    /\ \E i \in Indices : task[i].pc = "waiting"

\* C2: under "continue" the returned results hold exactly one item per
\* submitted product, results[i].index = i, and results[i] is the item that
\* processing products[i] produced (a result obtained from the provider
\* carries products[i]), whatever the completion order
C2_PositionalResults ==
    (Continue /\ bpc = "returned") =>
        /\ Len(results) = Len(request.products)
        /\ \A k \in 1..Len(results) :
              /\ results[k].index = k - 1
              /\ task[k - 1].product = request.products[k]
              /\ results[k] = task[k - 1].item
              /\ task[k - 1].outcome = "ok" =>
                    Value(results[k].result).product = request.products[k]

\* a returned "continue" batch of three whose last product finished first
C2_Witness ==
    /\ Continue
    /\ bpc = "returned"
    /\ Len(request.products) = 3
    /\ order[1] = 2
    /\ Len(results) = 3

\* C3: under "continue" a failing item (provider exception, cache exception
\* or timeout) is recorded in its own item as success = false with an error
\* string; the slot it held is free again, the other items are still
\* processed and reported with their own outcomes, and enrich_batch does not
\* raise
C3_FailureIsolated ==
    Continue =>
        /\ bpc # "raised"
        /\ semaphore = request.max_concurrent - Cardinality(InFlight)
        /\ \A i \in Indices :
              /\ Failed(i) => /\ task[i].item.index = i
                              /\ ~task[i].item.success
                              /\ task[i].item.result = None
                              /\ task[i].item.error # None
              /\ Succeeded(i) => /\ task[i].item.success
                                 /\ task[i].item.error = None
        /\ bpc = "returned" =>
              /\ \A i \in Indices : Done(i)
              /\ \A i \in Indices : results[i + 1].success = Succeeded(i)

\* a returned "continue" batch where an item failed and an item that
\* finished after the failure succeeded
C3_Witness ==
    /\ Continue
    /\ bpc = "returned"
    /\ \E k, l \in 1..Len(order) :
          /\ k < l
          /\ Failed(order[k])
          /\ task[order[l]].outcome = "ok"
          /\ results[order[l] + 1].success
    /\ \E i \in Indices : task[i].outcome = "cache"
    /\ \E i \in Indices : task[i].outcome = "timeout"

\* C4: under "stop" the returned results are the items 0..k in input order,
\* every item before k succeeded, and k is the first failing index or the
\* last index
C4_StopPrefix ==
    (Stop /\ bpc = "returned") =>
        /\ Len(results) >= 1
        /\ Len(results) <= Len(request.products)
        /\ \A k \in 1..Len(results) :
              /\ results[k].index = k - 1
              /\ results[k] = task[k - 1].item
        /\ \A k \in 1..(Len(results) - 1) : results[k].success
        /\ \/ ~results[Len(results)].success
           \/ Len(results) = Len(request.products)

\* three products, the second fails: two results, the third never appears
C4_Witness ==
    /\ Stop
    /\ bpc = "returned"
    /\ Len(request.products) = 3
    /\ Len(results) = 2
    /\ results[1].success
    /\ ~results[2].success

\* C5: under "stop" at most one item is being enriched at any instant, item
\* i+1 is started only after item i finished successfully, and no cache
\* access or provider call is made for an item after the first failing one
C5_StopSequential ==
    Stop =>
        /\ Cardinality({i \in Indices : task[i].pc \in {"waiting", "acquired", "awaiting"}}) <= 1
        /\ \A i \in Indices :
              (i > 0 /\ task[i].pc # "new") => Succeeded(i - 1)
        /\ \A i, j \in Indices :
              (j < i /\ Failed(j)) => task[i].pc = "new" /\ ~task[i].accessed
        /\ invoked.zhipuai + invoked.cloudru
              <= Cardinality({i \in Indices : task[i].accessed})

\* the second of three items is in flight after the first succeeded, or has
\* failed and left the third untouched
C5_Witness ==
    /\ Stop
    /\ Len(request.products) = 3
    /\ request.max_concurrent = 2
    /\ Succeeded(0)
    /\ Failed(1)
    /\ task[2].pc = "new"
    /\ ~task[2].accessed
    /\ bpc = "returned"

\* the step in which wait_for times out for task i
TimedOut(i) == task[i].pc = "awaiting" /\ task'[i].pc = "done" /\ task'[i].outcome = "timeout"

\* in every state: exactly the items whose enrichment timed out carry the
\* timeout message, as failures
C6_TimeoutRecorded ==
    bpc # "idle" =>
        \A i \in Indices :
            Done(i) =>
                /\ task[i].outcome = "timeout" =>
                      task[i].item = [index |-> i, success |-> FALSE, result |-> None,
                                      error |-> TimeoutMessage(request.timeout_per_product)]
                /\ task[i].outcome # "timeout" =>
                      task[i].item.error # TimeoutMessage(request.timeout_per_product)

\* in every step: a timeout of item i leaves every other task as it was, with
\* the cache, and the batch running
C6_TimeoutStep ==
    \A i \in Indices :
        TimedOut(i) =>
            /\ \A j \in Indices \ {i} :
                  \/ task'[j] = task[j]
                  \/ Stop /\ j = i + 1
            /\ \A j \in InFlight \ {i} : task'[j].pc = task[j].pc
            /\ cache' = cache
            /\ bpc' = "running"
            /\ semaphore' = semaphore + 1

\* C6: an item whose enrichment exceeds timeout_per_product is recorded, alone,
\* as a failure with the error "Timeout after <n>s"; the items running beside
\* it are not cancelled and finish with their own outcomes, and the batch
\* goes on to return
C6_TimeoutIsolated == []C6_TimeoutRecorded /\ [][C6_TimeoutStep]_vars

\* a returned batch in which an item timed out while another was in flight,
\* and that other item then succeeded
C6_Witness ==
    /\ bpc = "returned"
    /\ \E i \in Indices :
          /\ task[i].outcome = "timeout"
          /\ results[i + 1].error = TimeoutMessage(DefaultTimeout)
          /\ \E j \in task[i].beside :
                /\ task[j].outcome = "ok"
                /\ results[j + 1].success

RECURSIVE TokensOfFirst(_)
TokensOfFirst(k) ==
    IF k = 0 THEN 0
    ELSE TokensOfFirst(k - 1)
         + (IF results[k].success THEN Value(results[k].result).metadata.tokens_used ELSE 0)

\* C7: for every value enrich_batch returns, summary.total = len(results),
\* succeeded + failed = total, succeeded is the number of items with
\* success = true, total_tokens is the sum of tokens_used over those items,
\* and under "continue" total is the number of submitted products
C7_Summary ==
    bpc = "returned" =>
        LET s == Value(summary)
        IN  /\ s.total = Len(results)
            /\ s.succeeded + s.failed = s.total
            /\ s.succeeded = Cardinality({k \in 1..Len(results) : results[k].success})
            /\ s.total_tokens = TokensOfFirst(Len(results))
            /\ Continue => s.total = Len(request.products)

\* a returned "stop" batch of three whose last item failed, with the tokens
\* of two different answers
C7_Witness ==
    /\ bpc = "returned"
    /\ Stop
    /\ Len(request.products) = 3
    /\ Value(summary).total = 3
    /\ Value(summary).succeeded = 2
    /\ Value(summary).failed = 1
    /\ Value(summary).total_tokens = 350

\* the fingerprint of task i's enrich_product call
TaskKey(i) ==
    GenerateKey(task[i].product.name, request.options.language, request.options.fields,
                request.options.include_web_search)

\* the tasks whose cache lookup missed: they invoked the provider
Missed == {i \in Indices : \/ task[i].pc = "awaiting"
                           \/ Done(i) /\ task[i].outcome \in {"ok", "provider", "timeout"}}

\* the tasks that stored their result, in the order they finished
Stored == SelectSeq(order, LAMBDA i : task[i].outcome = "ok")

\* C33: concurrently running enrich_product calls for one uncached
\* fingerprint can all miss and all invoke the provider; every such call
\* adds exactly one to misses, none to hits, and the cache holds exactly one
\* entry for the fingerprint once any of them has stored: the uncorrupted
\* snapshot of the result stored last.
C33_DuplicateCallsBenign ==
    (bpc # "idle" /\ request.use_cache) =>
        /\ misses = Cardinality(Missed)
        /\ invoked.zhipuai + invoked.cloudru = Cardinality(Missed)
        /\ hits = Cardinality({i \in Indices : Done(i) /\ task[i].outcome = "cached"})
        /\ \A i \in Indices :
              Cardinality({k \in 1..Len(cache) : cache[k].key = TaskKey(i)})
                  = IF Stored = <<>> THEN 0 ELSE 1
        /\ Stored # <<>> =>
              LET last == Stored[Len(Stored)]
                  entry == CHOOSE e \in Live(cache, now) : e.key = TaskKey(last)
              IN  /\ entry.value = ModelDump(Value(task[last].item.result))
                  /\ ModelValidate(entry.value) = Value(task[last].item.result)

\* C33 witness: a returned "continue" batch of two products with one
\* fingerprint: both lookups missed, both providers were invoked, both
\* results were stored, and the cache holds one entry
C33_Witness ==
    /\ Continue
    /\ bpc = "returned"
    /\ request.use_cache
    /\ Len(request.products) = 2
    /\ TaskKey(0) = TaskKey(1)
    /\ task[0].outcome = "ok"
    /\ task[1].outcome = "ok"
    /\ misses = 2
    /\ hits = 0
    /\ invoked = [zhipuai |-> 1, cloudru |-> 1]
    /\ Len(cache) = 1

\* the step in which the enrich_product call of task i fails or is cancelled
\* by the timeout
FailStep(i) ==
    /\ task[i].pc \in {"acquired", "awaiting"}
    /\ task'[i].pc = "done"
    /\ task'[i].outcome \in {"provider", "cache", "timeout"}

\* the step in which task j, whose call is identical to an earlier failed
\* one, looks up the cache while no call has stored a result
RetryStep(j) ==
    /\ request.use_cache
    /\ task[j].pc = "acquired"
    /\ task'[j].pc # "acquired"
    /\ task'[j].outcome # "cache"
    /\ Stored = <<>>
    /\ \E i \in Indices : Failed(i) /\ TaskKey(i) = TaskKey(j)

\* in every step: a failing or timed out call leaves the cache entries as
\* they were, and a later identical call misses and invokes the provider
C35_Step ==
    \A i \in Indices :
        /\ FailStep(i) => cache' = cache
        /\ RetryStep(i) =>
              /\ task'[i].pc = "awaiting"
              /\ misses' = misses + 1
              /\ invoked'.zhipuai + invoked'.cloudru = invoked.zhipuai + invoked.cloudru + 1

\* C35: an enrich_product call that fails, or that is cancelled by the
\* per-item timeout while the provider call is in flight, adds no entry to
\* the cache: the entries after the call are the entries before it, so a
\* later identical call invokes the provider again.
C35_FailureStoresNothing == [][C35_Step]_vars

\* C35 witness: with one slot, the first item timed out while its provider
\* call was in flight, the cache is empty, and the second item, of the same
\* fingerprint, has invoked a provider again
C35_Witness ==
    /\ Continue
    /\ request.use_cache
    /\ request.max_concurrent = 1
    /\ Len(request.products) = 2
    /\ TaskKey(0) = TaskKey(1)
    /\ Done(0)
    /\ task[0].outcome = "timeout"
    /\ task[1].pc = "awaiting"
    /\ cache = <<>>
    /\ misses = 2
    /\ invoked.zhipuai + invoked.cloudru = 2

\* C37: the timeout_per_product clock of an item starts only once the item
\* holds a semaphore slot: an item is recorded as timed out only when an
\* instant passed while its own provider call was in flight, so an item that
\* waited for a slot longer than timeout_per_product has no item until it
\* holds a slot, and is executed: its enrich_product call is made.
C37_ClockStartsWithSlot ==
    bpc # "idle" =>
        \A i \in Indices :
            /\ task[i].pc \in {"new", "waiting"} => task[i].item = None /\ task[i].ran = 0
            /\ (Done(i) /\ task[i].outcome = "timeout") => task[i].ran >= 1
            /\ (Done(i) /\ task[i].waited >= 2) => task[i].accessed

\* C37 witness: an item waited for a slot through two instants, that is for
\* longer than timeout_per_product, and then succeeded with a result
\* obtained from the provider within its own timeout
C37_Witness ==
    /\ Continue
    /\ bpc = "returned"
    /\ \E i \in Indices :
          /\ task[i].waited >= 2
          /\ task[i].ran = 0
          /\ task[i].outcome = "ok"
          /\ results[i + 1].success

\* C36, safety: no provider call is in flight for longer than
\* timeout_per_product, and the slots taken are those of the items in flight
C36_WithinTimeout ==
    bpc # "idle" =>
        /\ \A i \in Indices : task[i].pc \in {"acquired", "awaiting"} => task[i].ran <= 1
        /\ semaphore = request.max_concurrent - Cardinality(InFlight)

\* enrich_batch has returned: every slot is free, no item is waiting for one
\* or in flight, and under "continue" every item has finished
C36_Returned ==
    /\ bpc = "returned"
    /\ semaphore = request.max_concurrent
    /\ \A i \in Indices : task[i].pc \in {"done", "new"}
    /\ Continue => \A i \in Indices : Done(i)

\* C36: every enrich_batch call eventually returns, even if a provider call
\* never responds: each started item finishes, at the latest by its timeout,
\* its slot is released on success, failure and timeout alike, and under
\* "continue" every item waiting for a slot eventually gets one and
\* finishes.
C36_BatchReturns == []C36_WithinTimeout /\ <>[]C36_Returned

\* C36 witness: a returned "continue" batch in which every item timed out
\* because no provider answered, one of them after waiting for a slot
C36_Witness ==
    /\ Continue
    /\ bpc = "returned"
    /\ Len(request.products) = 3
    /\ request.max_concurrent = 2
    /\ \A i \in Indices : task[i].outcome = "timeout"
    /\ \E i \in Indices : task[i].waited >= 1
    /\ semaphore = 2

(***************************************************************************)
(* Claims about the exceptions of enrich_product.                          *)
(***************************************************************************)
\* C18: every exception raised while enrich_product runs, in the cache
\* lookup, the provider call or the cache store, reaches the caller as an
\* EnrichmentError with the product name, the stage "api_call" and the
\* exception as its cause
C18_AlwaysEnrichmentError ==
    call.pc = "raised" =>
        /\ Value(call.error).type = "EnrichmentError"
        /\ Value(call.error).product_name = call.product.name
        /\ Value(call.error).stage = "api_call"
        /\ Value(call.error).cause = Value(call.thrown)

(***************************************************************************)
(* ClientSpec: a provider client's enrich_product (ZhipuAIClient,          *)
(* CloudruClient) under its tenacity decorator                             *)
(*   @retry(retry=retry_if_exception_type((TimeoutError, ConnectionError)),*)
(*          stop=stop_after_attempt(3), wait=wait_exponential(...)).       *)
(* The transport is chat.completions.create; in one call it behaves the    *)
(* same way on every attempt.                                              *)
(***************************************************************************)
StopAfterAttempt == 3

TransportFaults == {"TimeoutError", "ConnectionError", "APIError"}

Transient == {"TimeoutError", "ConnectionError"}

\* "raise ZhipuAPIError / CloudruAPIError(message, details={"product_name":
\* product.name}) from e"
ApiError(provider, product, e) ==
    [type |-> "ProviderAPIError", provider |-> provider,
     details |-> [product_name |-> product.name], cause |-> e]

\* a decorator that retries whatever the exception
RetryOnAnyException(e) == TRUE

\* retry_if_exception_type((TimeoutError, ConnectionError)), applied to the
\* exception that leaves the decorated function
RetryIf(e) == e.type \in Transient

\* ZhipuAIClient._build_tools: the one tool, of type "web_search"
BuildTools == <<"web_search">>

\* ZhipuAIClient.enrich_product: kwargs["tools"] of the chat-completion
\* request, None when the key is not set
ZhipuTools(options) == IF options.include_web_search THEN Some(BuildTools) ELSE None

\* a regional client that passes the tool when web search is requested
CloudruToolsAsRequested(options) ==
    IF options.include_web_search THEN Some(BuildTools) ELSE None

\* CloudruClient.enrich_product: its chat-completion request has no tools
CloudruTools(options) == None

\* the tools argument of the request a client sends
RequestTools(provider, options) ==
    IF provider = "zhipuai" THEN ZhipuTools(options) ELSE CloudruTools(options)

\* client.enrich_product(product, options) up to the first await of the
\* transport; the regional client raises at once when it has no credentials
ClientCall(provider, product, options, fault) ==
    /\ clientCall.pc \in {"idle", "returned", "raised"}
    /\ clientCall.n < MaxCalls
    /\ LET started == [pc |-> "requesting", n |-> clientCall.n + 1, provider |-> provider,
                       product |-> product, options |-> options, fault |-> fault,
                       attempts |-> 1, tools |-> RequestTools(provider, options),
                       result |-> None, error |-> None]
       IN  IF provider = "cloudru" /\ ~cloudruConfigured
           THEN clientCall' = [started EXCEPT !.pc = "raised", !.attempts = 0,
                                              !.tools = None,
                                              !.error = Some(ApiError(provider, product, None))]
           ELSE clientCall' = started
    /\ UNCHANGED <<cacheVars, lastOp, serviceVars, edgeVars, batchVars>>

\* the transport answers: the completion is parsed and returned
TransportRespond(answer) ==
    /\ clientCall.pc = "requesting"
    /\ clientCall.fault = "none"
    /\ clientCall' = [clientCall EXCEPT !.pc = "returned", !.result = Some(answer)]
    /\ UNCHANGED <<cacheVars, lastOp, serviceVars, edgeVars, batchVars>>

\* the transport raises: "except Exception" turns the exception into the
\* provider's API error, and the decorator retries or lets it through
TransportRaise ==
    /\ clientCall.pc = "requesting"
    /\ clientCall.fault \in TransportFaults
    /\ LET e == [type |-> clientCall.fault]
           raised == ApiError(clientCall.provider, clientCall.product, e)
       IN  IF RetryIf(raised)
           THEN IF clientCall.attempts < StopAfterAttempt
                THEN clientCall' = [clientCall EXCEPT !.attempts = @ + 1]
                ELSE clientCall' = [clientCall EXCEPT !.pc = "raised",
                                       !.error = Some([type |-> "RetryError", cause |-> raised])]
           ELSE clientCall' = [clientCall EXCEPT !.pc = "raised", !.error = Some(raised)]
    /\ UNCHANGED <<cacheVars, lastOp, serviceVars, edgeVars, batchVars>>

ClientNext ==
    \/ \E c \in {"zhipuai", "cloudru"}, p \in Products, o \in OptionSet,
          f \in TransportFaults \cup {"none"} :
          ClientCall(c, p, o, f)
    \/ \E a \in ProviderAnswers : TransportRespond(a)
    \/ TransportRaise

ClientSpec == Init /\ [][ClientNext]_vars

(***************************************************************************)
(* Claims about the provider clients.                                      *)
(***************************************************************************)
\* the transport of the last client call was reached and failed
TransportFailed == clientCall.pc = "raised" /\ clientCall.attempts >= 1

\* C19: when the transport raises a timeout or connection error on every
\* attempt, the client's enrich_product makes exactly 3 chat-completion
\* attempts and then fails with the provider API error
C19_ThreeAttempts ==
    (TransportFailed /\ clientCall.fault \in Transient) =>
        /\ clientCall.attempts = 3
        /\ Value(clientCall.error).type = "ProviderAPIError"

\* C20: when the transport fails with anything other than a timeout or
\* connection error, the client's enrich_product makes exactly one
\* chat-completion attempt and raises the provider API error, with the
\* product name in its details and the transport's exception as its cause
C20_NoRetryOnApiError ==
    (TransportFailed /\ clientCall.fault \notin Transient) =>
        /\ clientCall.attempts = 1
        /\ Value(clientCall.error).type = "ProviderAPIError"
        /\ Value(clientCall.error).provider = clientCall.provider
        /\ Value(clientCall.error).details.product_name = clientCall.product.name
        /\ Value(clientCall.error).cause = [type |-> clientCall.fault]

\* a call of the regional client that failed on an API-level error
C20_Witness ==
    /\ TransportFailed
    /\ clientCall.fault = "APIError"
    /\ clientCall.provider = "cloudru"
    /\ clientCall.attempts = 1
    /\ Value(clientCall.error).details.product_name = NameAVariant


\* C29: the regional client never passes a web-search tool to the
\* chat-completion request, whatever options.include_web_search is; the
\* primary client passes the web-search tool exactly when
\* options.include_web_search is true.
C29_WebSearchTool ==
    (clientCall.pc # "idle" /\ clientCall.attempts >= 1) =>
        IF clientCall.provider = "cloudru"
        THEN clientCall.tools = None
        ELSE (clientCall.tools = Some(<<"web_search">>))
                 <=> clientCall.options.include_web_search

\* C29 witness: the regional client, configured, sent its request for options
\* that ask for web search, and the request has no tools
C29_Witness ==
    /\ clientCall.pc = "returned"
    /\ clientCall.provider = "cloudru"
    /\ clientCall.attempts = 1
    /\ clientCall.options.include_web_search
    /\ clientCall.tools = None

(***************************************************************************)
(* HealthSpec: ProductEnricherService.health_check.  A probe is a client's *)
(* health_check; its transport call is chat.completions.create, which      *)
(* answers with content, answers without content, or raises.               *)
(***************************************************************************)
ProbeOutcomes == {"content", "no_content", "raise"}

\* ZhipuAIClient.health_check / CloudruClient.health_check, given what the
\* transport did: "response.choices[0].message.content is not None", and
\* False when the call raised
ClientHealthy(outcome) == outcome = "content"

\* a health check that probes the regional client whatever its configuration
ProbeRegionalAlways(configured) == TRUE

\* health_check: "Check Cloud.ru only if configured"
ProbeRegional(configured) == configured

\* the status string of a probed provider
StatusOf(healthy) == IF healthy THEN "connected" ELSE "disconnected"

\* get_stats of the cache, as health_check reports it
CacheStats == [size |-> TTLCacheLen(cache, now), hits |-> hits, misses |-> misses]

NoProbes == [zhipuai |-> 0, cloudru |-> 0]

\* what health_check returns once the regional status is known
HealthReturn(h, cloudru_status) ==
    [h EXCEPT !.pc = "returned",
              !.result = Some([zhipu_api |-> StatusOf(h.zhipu_healthy),
                               cloudru_api |-> cloudru_status,
                               cache |-> CacheStats])]

\* health_check() is called: it awaits the primary client's health_check
HealthCheck ==
    /\ health.pc \in {"idle", "returned"}
    /\ health.n < MaxOps
    /\ health' = [pc |-> "zhipu", n |-> health.n + 1,
                  probes |-> [NoProbes EXCEPT !.zhipuai = 1],
                  network |-> [NoProbes EXCEPT !.zhipuai = 1],
                  zhipu_healthy |-> FALSE, cloudru_healthy |-> None, result |-> None]
    /\ UNCHANGED <<cacheVars, lastOp, cloudruConfigured, invoked, call, clientVars,
                   response, parsed, validated, config, batchVars>>

\* the primary client's health_check returns; the regional client is probed
\* if it is configured, and reported "not_configured" otherwise
ZhipuProbed(outcome) ==
    /\ health.pc = "zhipu"
    /\ LET h == [health EXCEPT !.zhipu_healthy = ClientHealthy(outcome)]
       IN  IF ProbeRegional(cloudruConfigured)
           THEN health' = [h EXCEPT !.pc = "cloudru",
                                    !.probes.cloudru = @ + 1,
                                    !.network.cloudru =
                                        IF cloudruConfigured THEN @ + 1 ELSE @]
           ELSE health' = HealthReturn(h, "not_configured")
    /\ UNCHANGED <<cacheVars, lastOp, cloudruConfigured, invoked, call, clientVars,
                   response, parsed, validated, config, batchVars>>

\* the regional client's health_check returns: False at once when it has no
\* credentials ("if not self._client: return False"), else by its transport
CloudruProbed(outcome) ==
    /\ health.pc = "cloudru"
    /\ LET healthy == cloudruConfigured /\ ClientHealthy(outcome)
           h == [health EXCEPT !.cloudru_healthy = Some(healthy)]
       IN  health' = HealthReturn(h, StatusOf(healthy))
    /\ UNCHANGED <<cacheVars, lastOp, cloudruConfigured, invoked, call, clientVars,
                   response, parsed, validated, config, batchVars>>

HealthNext ==
    \/ HealthCheck
    \/ \E o \in ProbeOutcomes : ZhipuProbed(o)
    \/ \E o \in ProbeOutcomes : CloudruProbed(o)
    \/ \E r \in CopyRequests : Get(r)

HealthSpec == Init /\ [][HealthNext]_vars

(***************************************************************************)
(* Claims about health_check.                                              *)
(***************************************************************************)
\* C22: health_check reports the regional provider "not_configured" exactly
\* when the regional client lacks credentials, and then makes no health_check
\* and no network call to it; otherwise it reports "connected" or
\* "disconnected" as the regional client's health_check returned true or
\* false; the primary provider is reported "connected" or "disconnected" as
\* its own health_check returned.
C22_HealthCheck ==
    health.pc = "returned" =>
        LET r == Value(health.result)
        IN  /\ r.cloudru_api = "not_configured" <=> ~cloudruConfigured
            /\ ~cloudruConfigured =>
                   /\ health.probes.cloudru = 0
                   /\ health.network.cloudru = 0
            /\ cloudruConfigured =>
                   /\ health.probes.cloudru = 1
                   /\ health.cloudru_healthy # None
                   /\ r.cloudru_api = IF Value(health.cloudru_healthy)
                                      THEN "connected" ELSE "disconnected"
            /\ health.probes.zhipuai = 1
            /\ r.zhipu_api = IF health.zhipu_healthy THEN "connected" ELSE "disconnected"

\* C22 witness: with the regional client unconfigured, a health check whose
\* primary probe failed returned "disconnected" and "not_configured" without
\* probing the regional client
C22_Witness ==
    /\ health.pc = "returned"
    /\ ~cloudruConfigured
    /\ Value(health.result).zhipu_api = "disconnected"
    /\ Value(health.result).cloudru_api = "not_configured"
    /\ health.probes.cloudru = 0
    /\ health.network.cloudru = 0

(***************************************************************************)
(* ApiSpec: the endpoint POST /products/enrich (api/v1/products.py).  It   *)
(* awaits enricher.enrich_product(product, options, use_cache=True) and    *)
(* answers 200 with the result, or turns the exception into an             *)
(* HTTPException by its except clauses, tried in order.                    *)
(***************************************************************************)
HTTP_200_OK == 200
HTTP_400_BAD_REQUEST == 400
HTTP_500_INTERNAL_SERVER_ERROR == 500
HTTP_502_BAD_GATEWAY == 502

\* isinstance(e, ZhipuAPIError): the API error a provider client raises
IsZhipuAPIError(e) == e.type = "ProviderAPIError"

\* the status code of the HTTPException raised for exception e
StatusForException(e) ==
    IF e.type = "ValidationError" THEN HTTP_400_BAD_REQUEST
    ELSE IF IsZhipuAPIError(e) THEN HTTP_502_BAD_GATEWAY
    ELSE IF e.type = "EnrichmentError" THEN HTTP_500_INTERNAL_SERVER_ERROR
    ELSE HTTP_500_INTERNAL_SERVER_ERROR

\* the endpoint is called with a request: enrich_product starts with use_cache=True
PostEnrich(product, options) ==
    /\ response.n = call.n
    /\ Call(product, options, TRUE)

\* the endpoint is called and the cache lookup of enrich_product raises
PostEnrichLookupRaise(product, options) ==
    /\ response.n = call.n
    /\ CallLookupRaise(product, options)

\* enrich_product returned or raised: the endpoint answers
Respond ==
    /\ call.pc \in {"returned", "raised"}
    /\ response.n < call.n
    /\ response' = [n |-> call.n,
                    status |-> IF call.pc = "returned"
                               THEN HTTP_200_OK
                               ELSE StatusForException(Value(call.error))]
    /\ UNCHANGED <<cacheVars, lastOp, serviceVars, clientVars, health, parsed, validated,
                   config, batchVars>>

ApiNext ==
    \/ \E p \in Products, o \in OptionSet : PostEnrich(p, o)
    \/ \E p \in Products, o \in OptionSet : PostEnrichLookupRaise(p, o)
    \/ \E a \in ProviderAnswers : ProviderReturn(a)
    \/ ProviderRaise
    \/ StoreRaise
    \/ Respond

ApiSpec == Init /\ [][ApiNext]_vars

(***************************************************************************)
(* Claims about POST /enrich.                                              *)
(***************************************************************************)
\* the last request was answered after enrich_product raised
AnsweredFailure == response.n = call.n /\ call.pc = "raised"

\* C23: POST /enrich answers with status 502 when the enrichment failed
\* because the provider API call failed, and with status 500 only for the
\* other failures of the enrichment.
C23_ProviderFailureIs502 ==
    AnsweredFailure =>
        IF Value(call.thrown).type = "ProviderAPIError"
        THEN response.status = 502
        ELSE response.status = 500

(***************************************************************************)
(* Response parsing (ZhipuAIClient._parse_response and                     *)
(* CloudruClient._parse_response, which are the same code).  A completion  *)
(* is the sequence of its lexemes: the punctuation of JSON, string         *)
(* literals ("str", with their content), a string literal cut before its   *)
(* closing quote ("ustr"), numbers, null, runs of other text, and the      *)
(* markdown fences ("fence_json" for ```json, "fence" for ```); white      *)
(* space between lexemes is not represented.  String literals hold no      *)
(* quote, brace or bracket.                                                *)
(***************************************************************************)
Tok(k) == [k |-> k, v |-> ""]

Str(v) == [k |-> "str", v |-> v]

\* JSON values as json.loads builds them: None, a number, a str, a list, and a
\* dict as the list of its (key, value) items in the order of the text
JNull == [t |-> "null", s |-> "", items |-> <<>>]

JNum == [t |-> "num", s |-> "", items |-> <<>>]

JStr(v) == [t |-> "str", s |-> v, items |-> <<>>]

JList(items) == [t |-> "list", s |-> "", items |-> items]

JItem(key, val) == [t |-> "item", s |-> key, items |-> <<val>>]

JDict(items) == [t |-> "dict", s |-> "", items |-> items]

\* the result of a parsing step: a value and the position after it, or a
\* JSONDecodeError
Decoded(val, next) == [ok |-> TRUE, val |-> val, next |-> next]

JSONDecodeError == [ok |-> FALSE, val |-> JNull, next |-> 0]

KindAt(toks, i) == IF i \in 1..Len(toks) THEN toks[i].k ELSE "end"

RECURSIVE ParseValue(_, _)
RECURSIVE ParseElements(_, _, _)
RECURSIVE ParseMembers(_, _, _)

\* json.loads: one JSON value starting at lexeme i
ParseValue(toks, i) ==
    LET k == KindAt(toks, i)
    IN  IF k = "str" THEN Decoded(JStr(toks[i].v), i + 1)
        ELSE IF k = "num" THEN Decoded(JNum, i + 1)
        ELSE IF k = "null" THEN Decoded(JNull, i + 1)
        ELSE IF k = "[" THEN
            IF KindAt(toks, i + 1) = "]"
            THEN Decoded(JList(<<>>), i + 2)
            ELSE ParseElements(toks, i + 1, <<>>)
        ELSE IF k = "{" THEN
            IF KindAt(toks, i + 1) = "}"
            THEN Decoded(JDict(<<>>), i + 2)
            ELSE ParseMembers(toks, i + 1, <<>>)
        ELSE JSONDecodeError

\* the elements of an array after "[" or ",", up to the closing "]"
ParseElements(toks, i, acc) ==
    LET e == ParseValue(toks, i)
    IN  IF ~e.ok THEN JSONDecodeError
        ELSE IF KindAt(toks, e.next) = ","
             THEN ParseElements(toks, e.next + 1, Append(acc, e.val))
        ELSE IF KindAt(toks, e.next) = "]"
             THEN Decoded(JList(Append(acc, e.val)), e.next + 1)
        ELSE JSONDecodeError

\* the members of an object after "{" or ",", up to the closing "}"
ParseMembers(toks, i, acc) ==
    IF KindAt(toks, i) # "str" \/ KindAt(toks, i + 1) # ":"
    THEN JSONDecodeError
    ELSE LET m == ParseValue(toks, i + 2)
         IN  IF ~m.ok THEN JSONDecodeError
             ELSE IF KindAt(toks, m.next) = ","
                  THEN ParseMembers(toks, m.next + 1, Append(acc, JItem(toks[i].v, m.val)))
             ELSE IF KindAt(toks, m.next) = "}"
                  THEN Decoded(JDict(Append(acc, JItem(toks[i].v, m.val))), m.next + 1)
             ELSE JSONDecodeError

\* json.loads(text): the text must be one JSON value and nothing else
JsonLoads(toks) ==
    LET r == ParseValue(toks, 1)
    IN  IF r.ok /\ r.next = Len(toks) + 1 THEN r ELSE JSONDecodeError

\* _parse_response, "Remove markdown code blocks if present": a leading
\* ```json or ``` and a trailing ``` are cut off
StripFences(content) ==
    LET head == IF KindAt(content, 1) \in {"fence_json", "fence"}
                THEN Tail(content)
                ELSE content
    IN  IF KindAt(head, Len(head)) = "fence"
        THEN SubSeq(head, 1, Len(head) - 1)
        ELSE head

\* the positions of the lexemes of kind k
Positions(toks, k) == {i \in 1..Len(toks) : toks[i].k = k}

Min(S) == CHOOSE x \in S : \A y \in S : x <= y

Max(S) == CHOOSE x \in S : \A y \in S : y <= x

\* _parse_response, the greedy search for an opening brace, anything, and a
\* closing brace in the raw content: from the first opening brace to the
\* last closing brace after it; the empty sequence stands for no match (a
\* match has two lexemes at least)
JsonMatch(content) ==
    LET opens == Positions(content, "{")
        closes == IF opens = {} THEN {}
                  ELSE {j \in Positions(content, "}") : j > Min(opens)}
    IN  IF closes = {} THEN <<>> ELSE SubSeq(content, Min(opens), Max(closes))

\* the positions where the text reads "field_name" : and then a lexeme of
\* kind k
KeyPositions(content, field_name, k) ==
    {i \in 1..Len(content) :
        /\ content[i] = Str(field_name)
        /\ KindAt(content, i + 1) = ":"
        /\ KindAt(content, i + 2) = k}

\* extract_string_field(field_name): the first place where the quoted field
\* name, a colon and a quoted string follow each other; the empty string
\* stands for no match, which the test of val treats alike
ExtractStringField(content, field_name) ==
    LET at == KeyPositions(content, field_name, "str")
    IN  IF at = {} THEN "" ELSE content[Min(at) + 2].v

\* re.findall of the quoted strings in a span of the content
QuotedStrings(span) ==
    LET strs == SelectSeq(span, LAMBDA tk : tk.k = "str")
    IN  [i \in 1..Len(strs) |-> JStr(strs[i].v)]

\* the search for the quoted field name, a colon, an opening bracket and,
\* non-greedy, a closing bracket: the span between the opening bracket and
\* the first closing bracket after it
ListMatch(content, field_name) ==
    LET at == KeyPositions(content, field_name, "[")
        closes == IF at = {} THEN {}
                  ELSE {j \in Positions(content, "]") : j > Min(at) + 2}
    IN  IF closes = {}
        THEN [found |-> FALSE, span |-> <<>>]
        ELSE [found |-> TRUE, span |-> SubSeq(content, Min(at) + 3, Min(closes) - 1)]

RECURSIVE SpecPairs(_, _)
\* re.finditer over specs_str: the pairs of a non-empty quoted key, a colon
\* and a quoted value, left to right without overlap
SpecPairs(span, i) ==
    IF i > Len(span) THEN <<>>
    ELSE IF /\ span[i].k = "str"
            /\ span[i].v # ""
            /\ KindAt(span, i + 1) = ":"
            /\ KindAt(span, i + 2) = "str"
         THEN <<JItem(span[i].v, JStr(span[i + 2].v))>> \o SpecPairs(span, i + 3)
         ELSE SpecPairs(span, i + 1)

\* the search for the quoted name specifications, a colon, an opening brace
\* and the first closing brace after it
SpecsMatch(content) ==
    LET at == KeyPositions(content, "specifications", "{")
        closes == IF at = {} THEN {}
                  ELSE {j \in Positions(content, "}") : j > Min(at) + 2}
    IN  IF closes = {}
        THEN [found |-> FALSE, span |-> <<>>]
        ELSE [found |-> TRUE, span |-> SubSeq(content, Min(at) + 3, Min(closes) - 1)]

\* "x" in options.fields
Requested(fields, f) == \E i \in 1..Len(fields) : fields[i] = f

\* the fields _extract_fields_manually looks for, in its order
ManualStringFields == <<"manufacturer", "trademark", "category", "model_name", "description">>

\* the items _extract_fields_manually adds for one string field
ManualString(content, fields, f) ==
    IF Requested(fields, f) /\ ExtractStringField(content, f) # ""
    THEN <<JItem(f, JStr(ExtractStringField(content, f)))>>
    ELSE <<>>

\* the items it adds for features or seo_keywords
ManualList(content, fields, f) ==
    IF Requested(fields, f) /\ ListMatch(content, f).found
    THEN <<JItem(f, JList(QuotedStrings(ListMatch(content, f).span)))>>
    ELSE <<>>

\* the items it adds for specifications
ManualSpecs(content, fields) ==
    IF Requested(fields, "specifications") /\ SpecsMatch(content).found
    THEN <<JItem("specifications", JDict(SpecPairs(SpecsMatch(content).span, 1)))>>
    ELSE <<>>

\* _extract_fields_manually(content, options): the dict it returns
ExtractFieldsManually(content, fields) ==
    JDict(ManualString(content, fields, ManualStringFields[1])
          \o ManualString(content, fields, ManualStringFields[2])
          \o ManualString(content, fields, ManualStringFields[3])
          \o ManualString(content, fields, ManualStringFields[4])
          \o ManualString(content, fields, ManualStringFields[5])
          \o ManualList(content, fields, "features")
          \o ManualSpecs(content, fields)
          \o ManualList(content, fields, "seo_keywords"))

\* _parse_response, "Try to extract JSON from response": the value bound to
\* data and the path that produced it
ExtractData(content, fields) ==
    LET whole == JsonLoads(StripFences(content))
        match == JsonMatch(content)
    IN  IF whole.ok THEN [data |-> whole.val, path |-> "json"]
        ELSE IF match = <<>> THEN [data |-> JDict(<<>>), path |-> "none"]
        ELSE IF JsonLoads(match).ok THEN [data |-> JsonLoads(match).val, path |-> "match"]
        ELSE [data |-> ExtractFieldsManually(content, fields), path |-> "manual"]

\* the attributes of EnrichedProduct
Attributes ==
    {"manufacturer", "trademark", "category", "model_name", "description", "features",
     "specifications", "seo_keywords", "marketing_copy", "pros", "cons"}

\* EnrichedProduct: the attributes declared "list[str]"
ListAttributes == {"features", "seo_keywords", "pros", "cons"}

\* EnrichedProduct: the attribute declared "dict[str, Any]"
DictAttributes == {"specifications"}

\* the empty default of an attribute: None, [] or {}
EmptyDefault(attr) ==
    IF attr \in ListAttributes THEN JList(<<>>)
    ELSE IF attr \in DictAttributes THEN JDict(<<>>)
    ELSE JNull

\* data.get(key, default) on a dict: the value of the last item of that key
DataGet(data, key, default) ==
    LET at == {i \in 1..Len(data.items) : data.items[i].s = key}
    IN  IF at = {} THEN default ELSE data.items[Max(at)].items[1]

\* a parser that passes on every attribute the data holds
ArgumentUnprojected(data, fields, attr) == DataGet(data, attr, EmptyDefault(attr))

\* the argument _parse_response passes for an attribute:
\* data.get(attr, default) if attr in options.fields else default
Argument(data, fields, attr) ==
    IF Requested(fields, attr)
    THEN DataGet(data, attr, EmptyDefault(attr))
    ELSE EmptyDefault(attr)

\* pydantic's validation of one argument of EnrichedProduct(...)
ValidArgument(attr, v) ==
    IF attr \in ListAttributes
    THEN v.t = "list" /\ \A i \in 1..Len(v.items) : v.items[i].t = "str"
    ELSE IF attr \in DictAttributes
    THEN v.t = "dict"
    ELSE v.t \in {"null", "str"}

\* the attributes for which _parse_response evaluates data.get
Read(fields) == {a \in Attributes : Requested(fields, a)}

\* _parse_response(content, options): the EnrichedProduct it returns, or the
\* exception it raises: AttributeError when data.get is evaluated on a value
\* that is no dict, pydantic's ValidationError when an argument has the
\* wrong type
ParseResponse(content, fields) ==
    LET x == ExtractData(content, fields)
    IN  IF x.data.t # "dict"
        THEN IF Read(fields) # {}
             THEN [ok |-> FALSE, exc |-> "AttributeError", path |-> x.path, enriched |-> None]
             ELSE [ok |-> TRUE, exc |-> "", path |-> x.path,
                   enriched |-> Some([a \in Attributes |-> EmptyDefault(a)])]
        ELSE IF \E a \in Attributes : ~ValidArgument(a, Argument(x.data, fields, a))
        THEN [ok |-> FALSE, exc |-> "ValidationError", path |-> x.path, enriched |-> None]
        ELSE [ok |-> TRUE, exc |-> "", path |-> x.path,
              enriched |-> Some([a \in Attributes |-> Argument(x.data, fields, a)])]

(***************************************************************************)
(* ParseSpec: a provider client's enrich_product from the moment the       *)
(* chat-completion call has answered: the content is parsed and returned,  *)
(* and an exception raised on the way is turned into the provider's API    *)
(* error by "except Exception".                                            *)
(***************************************************************************)
Prefixes(toks) == {SubSeq(toks, 1, n) : n \in 0..Len(toks)}

\* { "description": "Test", "features": ["F1"] }
DescriptionAndFeatures ==
    <<Tok("{"), Str("description"), Tok(":"), Str("Test"), Tok(","),
      Str("features"), Tok(":"), Tok("["), Str("F1"), Tok("]"), Tok("}")>>

\* { "manufacturer": "Acme", "pros": ["P"], "marketing_copy": "M" }
ManufacturerAndMore ==
    <<Tok("{"), Str("manufacturer"), Tok(":"), Str("Acme"), Tok(","),
      Str("pros"), Tok(":"), Tok("["), Str("P"), Tok("]"), Tok(","),
      Str("marketing_copy"), Tok(":"), Str("M"), Tok("}")>>

\* { "specifications": {"k": "v"}, "description": "Test", "features": ["F1"] }
SpecificationsFirst ==
    <<Tok("{"), Str("specifications"), Tok(":"), Tok("{"), Str("k"), Tok(":"), Str("v"),
      Tok("}"), Tok(",")>> \o Tail(DescriptionAndFeatures)

\* JSON objects whose fields have the wrong type
WrongTypes ==
    { <<Tok("{"), Str("features"), Tok(":"), Str("F1"), Tok("}")>>,
      <<Tok("{"), Str("features"), Tok(":"), Tok("null"), Tok("}")>>,
      <<Tok("{"), Str("features"), Tok(":"), Tok("["), Tok("num"), Tok("]"), Tok("}")>>,
      <<Tok("{"), Str("description"), Tok(":"), Tok("num"), Tok("}")>>,
      <<Tok("{"), Str("specifications"), Tok(":"), Tok("["), Str("x"), Tok("]"), Tok("}")>> }

\* JSON that is not an object
NonObjects ==
    { <<Tok("["), Str("F1"), Tok("]")>>, <<Str("Test")>>, <<Tok("num")>>, <<Tok("null")>> }

\* no JSON at all, a string cut before its closing quote, and an object with
\* a comma before its closing brace
OtherBodies ==
    { <<Tok("text")>>,
      <<Tok("{"), Str("description"), Tok(":"), Tok("ustr")>>,
      <<Tok("{"), Str("description"), Tok(":"), Str("Test"), Tok(","), Tok("}")>> }

Bodies ==
    Prefixes(DescriptionAndFeatures) \cup Prefixes(ManufacturerAndMore)
        \cup Prefixes(SpecificationsFirst) \cup WrongTypes \cup NonObjects \cup OtherBodies

\* a body as it is, after a sentence, inside a fence, and between sentences
Completions ==
    UNION { { b,
              <<Tok("text")>> \o b,
              <<Tok("fence_json")>> \o b \o <<Tok("fence")>>,
              <<Tok("fence")>> \o b \o <<Tok("fence")>>,
              <<Tok("text")>> \o b \o <<Tok("text")>> } : b \in Bodies }

\* options.fields
FieldLists ==
    { <<"description", "features">>,
      <<"manufacturer">>,
      <<"specifications", "description", "features", "manufacturer", "pros", "marketing_copy">>,
      <<>> }

\* the chat-completion call answered with content: lines "Parse response" to
\* the return, and the except clause
HandleCompletion(provider, content, fields) ==
    /\ parsed.pc = "idle"
    /\ LET r == ParseResponse(content, fields)
       IN  parsed' = [pc |-> IF r.ok THEN "returned" ELSE "raised",
                      n |-> 1, provider |-> provider, content |-> content,
                      fields |-> fields, path |-> r.path, enriched |-> r.enriched,
                      error |-> IF r.ok THEN None
                                ELSE Some(ApiError(provider, [name |-> NameA],
                                                   [type |-> r.exc]))]
    /\ UNCHANGED <<cacheVars, lastOp, serviceVars, clientVars, response, health, validated,
                   config, batchVars>>

ParseNext ==
    \E c \in {"zhipuai", "cloudru"}, content \in Completions, fields \in FieldLists :
        HandleCompletion(c, content, fields)

ParseSpec == Init /\ [][ParseNext]_vars

(***************************************************************************)
(* Claims about response parsing.                                          *)
(***************************************************************************)
\* the completion holds a value for the attribute: its quoted name followed
\* by a colon
Present(content, attr) ==
    \E i \in 1..Len(content) : content[i] = Str(attr) /\ KindAt(content, i + 1) = ":"

\* C24: for every completion and every requested field list F, the
\* EnrichedProduct that response parsing returns has the empty default (None,
\* [] or {}) in every attribute not in F, even when the completion holds a
\* value for it, and in every attribute in F that is absent from the
\* completion.
C24_FieldProjection ==
    parsed.pc = "returned" =>
        \A a \in Attributes :
            (~Requested(parsed.fields, a) \/ ~Present(parsed.content, a)) =>
                Value(parsed.enriched)[a] = EmptyDefault(a)

\* C24 witness: a completion that is a JSON object with a manufacturer, a
\* list of pros and a marketing copy was parsed for the fields [description,
\* features]: the three attributes it holds are left empty, and so are the
\* two requested ones, which it does not hold
C24_Witness ==
    /\ parsed.pc = "returned"
    /\ parsed.content = ManufacturerAndMore
    /\ parsed.path = "json"
    /\ parsed.fields = <<"description", "features">>
    /\ Present(parsed.content, "manufacturer")
    /\ Value(parsed.enriched)["manufacturer"] = JNull
    /\ Value(parsed.enriched)["pros"] = JList(<<>>)
    /\ Value(parsed.enriched)["description"] = JNull
    /\ Value(parsed.enriched)["features"] = JList(<<>>)

\* C25: for every completion, be it a JSON object, fenced JSON, truncated
\* JSON, JSON that is not an object, an object whose fields have the wrong
\* type, or no JSON at all, response parsing does not raise: the client's
\* enrich_product returns an EnrichedProduct, partially populated or empty.
C25_ParsingNeverRaises ==
    parsed.pc # "idle" =>
        /\ parsed.pc = "returned"
        /\ parsed.error = None
        /\ parsed.enriched # None

\* the spec's example of a truncated completion: a sentence, then
\* {"description": "Test", "features": ["F1"  with no closing bracket or brace
TruncatedExample == <<Tok("text")>> \o SubSeq(DescriptionAndFeatures, 1, 9)

\* C26: for the truncated completion of the example, which opens a JSON
\* object and never closes it, and the requested fields [description,
\* features], parsing takes the manual field-extraction path and returns
\* description = "Test" and features = ["F1"] without raising.
C26_TruncatedRecovered ==
    (/\ parsed.pc # "idle"
     /\ parsed.content = TruncatedExample
     /\ parsed.fields = <<"description", "features">>) =>
        /\ parsed.pc = "returned"
        /\ parsed.path = "manual"
        /\ Value(parsed.enriched)["description"] = JStr("Test")
        /\ Value(parsed.enriched)["features"] = JList(<<JStr("F1")>>)

(***************************************************************************)
(* ValidationSpec: the construction of a ProductInput (models/product.py). *)
(* The constraints are on the lengths of the strings, so a string field is *)
(* given by its length, Some(n), or is None when the caller leaves it out. *)
(***************************************************************************)
NameMinLength == 1
NameMaxLength == 500
CategoryMaxLength == 200
BrandMaxLength == 200
DescriptionMaxLength == 5000
SkuMaxLength == 100

\* Field(default=None, max_length=m) on a "str | None" field
OptionalWithin(field, m) == field = None \/ Value(field) <= m

\* name: str = Field(..., min_length=1, max_length=500): required
ValidName(name) ==
    /\ name # None
    /\ Value(name) >= NameMinLength
    /\ Value(name) <= NameMaxLength

\* pydantic's validation of ProductInput(**given)
ValidProductInput(given) ==
    /\ ValidName(given.name)
    /\ OptionalWithin(given.category, CategoryMaxLength)
    /\ OptionalWithin(given.brand, BrandMaxLength)
    /\ OptionalWithin(given.description, DescriptionMaxLength)
    /\ OptionalWithin(given.sku, SkuMaxLength)

\* what callers give: lengths at and around the limits
GivenProducts ==
    [name : {None, Some(0), Some(1), Some(500), Some(501), Some(1000), Some(1001)},
     description : {None, Some(0), Some(5000), Some(5001), Some(10000), Some(10001)},
     category : {None, Some(200), Some(201)},
     brand : {None},
     sku : {None, Some(101)}]

\* ProductInput(**given): the model object is built, or ValidationError is
\* raised and there is no product to enrich
Construct(given) ==
    /\ validated.pc = "idle"
    /\ validated' = [pc |-> IF ValidProductInput(given) THEN "accepted" ELSE "rejected",
                     given |-> given]
    /\ UNCHANGED <<cacheVars, lastOp, serviceVars, clientVars, response, health, parsed,
                   config, batchVars>>

ValidationNext == \E g \in GivenProducts : Construct(g)

ValidationSpec == Init /\ [][ValidationNext]_vars

(***************************************************************************)
(* Claims about ProductInput.                                              *)
(***************************************************************************)
\* C30: ProductInput validation accepts a product exactly when its name has
\* 1 to 1000 characters and its description is absent or has at most 10000
\* characters; any other product is rejected.
C30_AcceptedLengths ==
    validated.pc # "idle" =>
        (validated.pc = "accepted" <=>
            /\ validated.given.name # None
            /\ Value(validated.given.name) >= 1
            /\ Value(validated.given.name) <= 1000
            /\ \/ validated.given.description = None
               \/ Value(validated.given.description) <= 10000)

(***************************************************************************)
(* engine.config_manager.ConfigurationManager.  config.profiles is         *)
(* _profiles, a function from the loaded names to profiles; config.active  *)
(* is _active_profile_name; config.files is the profile files under        *)
(* config_dir, by profile name: save_profile writes "default" to           *)
(* profiles/default.yaml and any other name to profiles/custom/<name>.yaml.*)
(* Of a profile's settings the model keeps llm.temperature.                *)
(***************************************************************************)
ProfileNames == {"default", "second", "extra"}

Temperatures == {"0.3", "0.9"}

\* EnrichmentProfile(name=..., is_default=..., llm=LLMConfig(temperature=...))
Profile(name, is_default, temperature) ==
    [name |-> name, is_default |-> is_default, temperature |-> temperature]

\* self._profiles[name] = profile
Put(profiles, name, profile) ==
    [n \in DOMAIN profiles \cup {name} |-> IF n = name THEN profile ELSE profiles[n]]

\* del self._profiles[name], file_path.unlink()
Remove(profiles, name) == [n \in DOMAIN profiles \ {name} |-> profiles[n]]

\* _create_default_profile
CreateDefaultProfile(profiles) == Put(profiles, "default", Profile("default", TRUE, "0.3"))

\* _load_profiles: the profiles read from the files, and the default profile
\* created in memory when no file holds it
LoadedProfiles(files) ==
    IF "default" \in DOMAIN files THEN files ELSE CreateDefaultProfile(files)

\* _load_profiles, "Find and set active profile": the first loaded profile
\* with is_default; profiles/default.yaml is read before the custom files,
\* these in the order of the directory listing, and a default profile
\* created in memory comes last; with no such profile the name is kept
ActiveAfterLoad(files, active) ==
    LET custom == {n \in DOMAIN files \ {"default"} : files[n].is_default}
    IN  IF "default" \in DOMAIN files /\ files["default"].is_default THEN {"default"}
        ELSE IF custom # {} THEN custom
        ELSE IF "default" \notin DOMAIN files THEN {"default"}
        ELSE {active}

\* get_active_profile, "if profile is None": the default profile is created
\* when it is not loaded
CreateDefaultProfileIfMissing(profiles) ==
    IF "default" \in DOMAIN profiles THEN profiles ELSE CreateDefaultProfile(profiles)

\* get_active_profile: the profile it returns
ActiveProfile(profiles, active) ==
    IF active \in DOMAIN profiles THEN profiles[active]
    ELSE CreateDefaultProfileIfMissing(profiles)["default"]

\* list_profiles
ListProfiles(profiles) == DOMAIN profiles

\* set_active_profile, "Update is_default flags"
FlagsFor(profiles, name) ==
    [n \in DOMAIN profiles |-> [profiles[n] EXCEPT !.is_default = (profiles[n].name = name)]]

\* a delete_profile that protects nothing
ProtectedNone(name) == FALSE

\* delete_profile, "Protect default profile"
Protected(name) == name = "default"

\* a delete_profile that keeps the active name
ActiveKept(name, active) == active

\* delete_profile, "Don't delete active profile": the active name afterwards
ActiveAfterDelete(name, active) == IF name = active THEN "default" ELSE active

\* the files a manager is constructed on: an empty config_dir, or one that
\* holds profiles/default.yaml
InitialFiles == {<<>>, [n \in {"default"} |-> Profile("default", TRUE, "0.3")]}

\* the profiles a caller passes to save_profile
GivenProfiles == {Profile(n, d, "0.3") : n \in ProfileNames, d \in BOOLEAN}

\* the manager after an operation
After(op, name, ret, profiles, active, files) ==
    config' = [pc |-> "ready", profiles |-> profiles, active |-> active, files |-> files,
               n |-> config.n + 1,
               last |-> [op |-> op, name |-> name, ret |-> ret]]

Ready == config.pc = "ready" /\ config.n < MaxOps

\* ConfigurationManager(config_dir)
ManagerInit(files) ==
    /\ config.pc = "idle"
    /\ \E active \in ActiveAfterLoad(files, "default") :
          config' = [pc |-> "ready", profiles |-> LoadedProfiles(files), active |-> active,
                     files |-> files, n |-> 0,
                     last |-> [op |-> "init", name |-> "", ret |-> TRUE]]
    /\ UNCHANGED <<cacheVars, lastOp, serviceVars, clientVars, response, health, parsed,
                   validated, batchVars>>

\* get_active_profile()
GetActiveProfile ==
    /\ Ready
    /\ After("get_active_profile", ActiveProfile(config.profiles, config.active).name, TRUE,
             IF config.active \in DOMAIN config.profiles
             THEN config.profiles
             ELSE CreateDefaultProfileIfMissing(config.profiles),
             config.active, config.files)
    /\ UNCHANGED <<cacheVars, lastOp, serviceVars, clientVars, response, health, parsed,
                   validated, batchVars>>

\* set_active_profile(name)
SetActiveProfile(name) ==
    /\ Ready
    /\ IF name \in DOMAIN config.profiles
       THEN After("set_active_profile", name, TRUE, FlagsFor(config.profiles, name), name,
                  config.files)
       ELSE After("set_active_profile", name, FALSE, config.profiles, config.active,
                  config.files)
    /\ UNCHANGED <<cacheVars, lastOp, serviceVars, clientVars, response, health, parsed,
                   validated, batchVars>>

\* save_profile(profile, overwrite); writable: writing the file succeeds
SaveProfile(profile, overwrite, writable) ==
    /\ Ready
    /\ IF (profile.name \in DOMAIN config.files /\ ~overwrite) \/ ~writable
       THEN After("save_profile", profile.name, FALSE, config.profiles, config.active,
                  config.files)
       ELSE After("save_profile", profile.name, TRUE,
                  Put(config.profiles, profile.name, profile), config.active,
                  Put(config.files, profile.name, profile))
    /\ UNCHANGED <<cacheVars, lastOp, serviceVars, clientVars, response, health, parsed,
                   validated, batchVars>>

\* delete_profile(name)
DeleteProfile(name) ==
    /\ Ready
    /\ IF Protected(name)
       THEN After("delete_profile", name, FALSE, config.profiles, config.active, config.files)
       ELSE After("delete_profile", name, name \in DOMAIN config.profiles,
                  Remove(config.profiles, name), ActiveAfterDelete(name, config.active),
                  Remove(config.files, name))
    /\ UNCHANGED <<cacheVars, lastOp, serviceVars, clientVars, response, health, parsed,
                   validated, batchVars>>

\* create_profile_from_current(new_name)
CreateProfileFromCurrent(new_name) ==
    /\ Ready
    /\ LET current == ActiveProfile(config.profiles, config.active)
           loaded == IF config.active \in DOMAIN config.profiles
                     THEN config.profiles
                     ELSE CreateDefaultProfileIfMissing(config.profiles)
       IN  After("create_profile_from_current", new_name, TRUE,
                 Put(loaded, new_name, Profile(new_name, FALSE, current.temperature)),
                 config.active, config.files)
    /\ UNCHANGED <<cacheVars, lastOp, serviceVars, clientVars, response, health, parsed,
                   validated, batchVars>>

\* update_profile_setting(profile_name, section, "temperature", value)
UpdateProfileSetting(profile_name, section, value) ==
    /\ Ready
    /\ IF profile_name \in DOMAIN config.profiles /\ section = "llm"
       THEN After("update_profile_setting", profile_name, TRUE,
                  [config.profiles EXCEPT ![profile_name].temperature = value],
                  config.active, config.files)
       ELSE After("update_profile_setting", profile_name, FALSE, config.profiles,
                  config.active, config.files)
    /\ UNCHANGED <<cacheVars, lastOp, serviceVars, clientVars, response, health, parsed,
                   validated, batchVars>>

\* reload()
Reload ==
    /\ Ready
    /\ \E active \in ActiveAfterLoad(config.files, config.active) :
          After("reload", "", TRUE, LoadedProfiles(config.files), active, config.files)
    /\ UNCHANGED <<cacheVars, lastOp, serviceVars, clientVars, response, health, parsed,
                   validated, batchVars>>

ConfigNext ==
    \/ \E f \in InitialFiles : ManagerInit(f)
    \/ GetActiveProfile
    \/ \E n \in ProfileNames : SetActiveProfile(n)
    \/ \E g \in GivenProfiles, o \in BOOLEAN, w \in BOOLEAN : SaveProfile(g, o, w)
    \/ \E n \in ProfileNames : DeleteProfile(n)
    \/ \E n \in ProfileNames : CreateProfileFromCurrent(n)
    \/ \E n \in ProfileNames, sec \in {"llm", "nosuch"}, v \in Temperatures :
          UpdateProfileSetting(n, sec, v)
    \/ Reload

ConfigSpec == Init /\ [][ConfigNext]_vars

(***************************************************************************)
(* Claims about ConfigurationManager.                                      *)
(***************************************************************************)
\* the step of the operation op called with name
OpStep(op, name) ==
    /\ config.pc = "ready"
    /\ config'.n = config.n + 1
    /\ config'.last.op = op
    /\ config'.last.name = name

\* in every state: a profile named "default" is loaded
C31_DefaultLoaded ==
    config.pc = "ready" =>
        /\ "default" \in ListProfiles(config.profiles)
        /\ config.profiles["default"].name = "default"

\* in every step: delete_profile("default") returns false and changes nothing
C31_DeleteDefaultStep ==
    OpStep("delete_profile", "default") =>
        /\ config'.last.ret = FALSE
        /\ config'.profiles = config.profiles
        /\ config'.active = config.active
        /\ config'.files = config.files

\* C31: after any sequence of ConfigurationManager operations a profile named
\* "default" exists, and delete_profile("default") returns false and changes
\* nothing.
C31_DefaultProtected == []C31_DefaultLoaded /\ [][C31_DeleteDefaultStep]_vars

\* C31 witness: delete_profile("default") was refused on a manager that holds
\* another profile, which is the active one
C31_Witness ==
    /\ config.pc = "ready"
    /\ config.last.op = "delete_profile"
    /\ config.last.name = "default"
    /\ config.last.ret = FALSE
    /\ config.active = "second"
    /\ ListProfiles(config.profiles) = {"default", "second"}

\* in every state: get_active_profile returns a profile of list_profiles
C32_ActiveLoaded ==
    config.pc = "ready" =>
        LET active == ActiveProfile(config.profiles, config.active)
        IN  /\ active.name \in ListProfiles(config.profiles)
            /\ config.profiles[active.name] = active

\* in every step: deleting the active profile makes "default" active, and
\* set_active_profile with a name that is not loaded returns false and
\* keeps the active profile
C32_Step ==
    \A name \in ProfileNames :
        /\ (OpStep("delete_profile", name) /\ name = config.active) =>
              /\ config'.active = "default"
              /\ ActiveProfile(config'.profiles, config'.active).name = "default"
        /\ (OpStep("set_active_profile", name) /\ name \notin ListProfiles(config.profiles)) =>
              /\ config'.last.ret = FALSE
              /\ config'.active = config.active
              /\ config'.profiles = config.profiles

\* C32: deleting the currently active profile makes "default" the active
\* profile, set_active_profile with a name that is not a loaded profile
\* returns false and leaves the active profile unchanged, and
\* get_active_profile always returns a profile present in list_profiles.
C32_ActiveProfileLoaded == []C32_ActiveLoaded /\ [][C32_Step]_vars

\* C32 witness: the active profile "second" was deleted, and "default" is
\* active
C32_Witness ==
    /\ config.pc = "ready"
    /\ config.last.op = "delete_profile"
    /\ config.last.name = "second"
    /\ config.last.ret = TRUE
    /\ config.active = "default"
    /\ "second" \notin ListProfiles(config.profiles)
    /\ config.profiles["default"].is_default = FALSE

\* C39: after any sequence of ConfigurationManager operations the profile
\* returned by get_active_profile has is_default = true, and no other loaded
\* profile has is_default = true.
C39_OneDefaultFlag ==
    config.pc = "ready" =>
        LET active == ActiveProfile(config.profiles, config.active)
        IN  /\ active.is_default
            /\ \A n \in ListProfiles(config.profiles) \ {active.name} :
                  ~config.profiles[n].is_default

=============================================================================
